---- MODULE Spec2Model ----
(***************************************************************************)
(* Model of the canvas timeline engine (CanvasTimeline component): stable  *)
(* row layout, camera with animated target, per-frame projection and       *)
(* overlap culling, pointer / wheel interaction.                           *)
(*                                                                         *)
(* Numbers.  The component computes in IEEE doubles.  The model computes   *)
(* in exact rationals <<n, d>> (d > 0, lowest terms); a division by zero   *)
(* gives <<1,0>> (+Infinity), <<-1,0>> (-Infinity) or <<0,0>> (NaN) as in  *)
(* JavaScript.  Rounding of doubles is not modelled.                       *)
(***************************************************************************)
EXTENDS Integers, Sequences, FiniteSets, TLC

\* ------------------------------------------------------------ rationals

AbsI(i) == IF i < 0 THEN -i ELSE i

RECURSIVE GCD(_, _)
GCD(a, b) == IF b = 0 THEN a ELSE GCD(b, a % b)

SignI(i) == IF i > 0 THEN 1 ELSE IF i < 0 THEN -1 ELSE 0

Reduce(n, d, g) == IF d < 0 THEN <<(-n) \div g, (-d) \div g>> ELSE <<n \div g, d \div g>>

\* n/d in lowest terms; d = 0 gives the JavaScript result of a division by zero.
Q(n, d) == IF d = 0 THEN <<SignI(n), 0>> ELSE Reduce(n, d, GCD(AbsI(n), AbsI(d)))

I(i) == <<i, 1>>

NaN == <<0, 0>>
IsNaN(a) == a = NaN
IsFinite(a) == a[2] > 0

Neg(a) == <<-a[1], a[2]>>

\* a + b over the least common denominator; Infinity + -Infinity is NaN.
AddG(a, b, g) == Q(a[1] * (b[2] \div g) + b[1] * (a[2] \div g), (a[2] \div g) * b[2])
Add(a, b) ==
  IF a[2] = 0 THEN (IF b[2] = 0 /\ b # a THEN NaN ELSE a)
  ELSE IF b[2] = 0 THEN b
  ELSE AddG(a, b, GCD(a[2], b[2]))
Sub(a, b) == Add(a, Neg(b))

\* a * b, cross-reduced before multiplying; 0 * Infinity is NaN.
MulG(a, b, g1, g2) == Q((a[1] \div g1) * (b[1] \div g2), (a[2] \div g2) * (b[2] \div g1))
Mul(a, b) ==
  IF a[2] = 0 \/ b[2] = 0 THEN <<SignI(a[1]) * SignI(b[1]), 0>>
  ELSE MulG(a, b, GCD(AbsI(a[1]), b[2]), GCD(AbsI(b[1]), a[2]))

\* 1 / b: 1 / 0 is Infinity, 1 / Infinity is 0.
Inv(b) ==
  IF b[1] = 0 THEN (IF b[2] = 0 THEN NaN ELSE <<1, 0>>)
  ELSE IF b[1] < 0 THEN <<-b[2], -b[1]>> ELSE <<b[2], b[1]>>
Div(a, b) == Mul(a, Inv(b))

\* The sign of a - b for two numbers that are not NaN.
CmpG(a, b, g) == SignI(a[1] * (b[2] \div g) - b[1] * (a[2] \div g))
Cmp(a, b) ==
  IF a[2] = 0 /\ b[2] = 0 THEN SignI(a[1] - b[1])
  ELSE IF a[2] = 0 THEN a[1]
  ELSE IF b[2] = 0 THEN -b[1]
  ELSE CmpG(a, b, GCD(a[2], b[2]))

\* JavaScript comparisons: false as soon as one side is NaN.
Lt(a, b) == a # NaN /\ b # NaN /\ Cmp(a, b) < 0
Le(a, b) == a # NaN /\ b # NaN /\ Cmp(a, b) <= 0
Gt(a, b) == Lt(b, a)
Ge(a, b) == Le(b, a)

\* Math.min / Math.max / Math.abs
MathMin(a, b) == IF a = NaN \/ b = NaN THEN NaN ELSE IF Cmp(b, a) < 0 THEN b ELSE a
MathMax(a, b) == IF a = NaN \/ b = NaN THEN NaN ELSE IF Cmp(a, b) < 0 THEN b ELSE a
MathAbs(a) == <<AbsI(a[1]), a[2]>>

\* ------------------------------------------------------------ constants

ROW_HEIGHT == 28
MARKER_PADDING == 4
AXIS_HEIGHT == 40
GROUP_LABEL_WIDTH == 160
OVERLAP_GAP == 5
MAX_SCALE == 5
SCROLL_SPEED == Q(3, 4)
ZOOM_SPEED == Q(1, 40)
LERP_FACTOR == Q(1, 4)
LAYOUT_SCALE == Q(1, 2)
ZOOM_STEP == Q(13, 10)
MIN_SCALE_CAP == Q(1, 20)

\* ------------------------------------------------------------ pure utilities

\* function pixelsToYears(px, scale)
pixelsToYears(px, scale) == Div(px, Mul(scale, I(10)))

\* An interpolation that jumps to the end.
lerp_jump(start, end, t) == end

\* function lerp(start, end, t)
lerp(start, end, t) == Add(start, Mul(Sub(end, start), t))

\* ------------------------------------------------------------ record model

NoDate == [year |-> 0, era |-> "none"]
NoEntry == "none"

\* A TimelineEntry, reduced to what the engine reads: id, date_start, date_end
\* (NoDate when absent), the measured label width w (measureEventWidth is a
\* function of the entry's title, year string and image_url alone), and the two
\* group keys.
Entry(id, ds, de, w, dyn, era) ==
  [id |-> id, date_start |-> ds, date_end |-> de, w |-> w,
   group_dynasty |-> dyn, group_era |-> era]

CE(y) == [year |-> y, era |-> "CE"]
BCE(y) == [year |-> y, era |-> "BCE"]

hasEnd(entry) == entry.date_end # NoDate

\* function getYear(entry, isEnd)
getYear(entry, isEnd) ==
  IF isEnd /\ hasEnd(entry)
  THEN (IF entry.date_end.era = "BCE" THEN -AbsI(entry.date_end.year) ELSE entry.date_end.year)
  ELSE (IF entry.date_start.era = "BCE" THEN -AbsI(entry.date_start.year)
        ELSE entry.date_start.year)

\* function measureEventWidth(entry): the canvas text measurement, an input.
measureEventWidth(entry) == entry.w

\* getGroupKey(entry); "" stands for a missing key.
getGroupKey(entry, mode) ==
  IF mode = "dynasty"
  THEN (IF entry.group_dynasty = "" THEN "Non classe" ELSE entry.group_dynasty)
  ELSE (IF entry.group_era = "" THEN "Non classe" ELSE entry.group_era)

\* `getYear(e, true) || getYear(e)`: a zero end year is falsy.
endOrStartYear(entry) ==
  IF getYear(entry, TRUE) # 0 THEN getYear(entry, TRUE) ELSE getYear(entry, FALSE)

\* ------------------------------------------------------------ sequences

MinI(a, b) == IF b < a THEN b ELSE a
MaxI(a, b) == IF b > a THEN b ELSE a

RECURSIVE SeqMin(_)
SeqMin(s) == IF Len(s) = 1 THEN s[1] ELSE MinI(s[1], SeqMin(Tail(s)))

RECURSIVE SeqMax(_)
SeqMax(s) == IF Len(s) = 1 THEN s[1] ELSE MaxI(s[1], SeqMax(Tail(s)))

Range(s) == {s[i] : i \in 1..Len(s)}
Front(s) == SubSeq(s, 1, Len(s) - 1)
Last(s) == s[Len(s)]

\* ------------------------------------------------------------ year range, minScale

startYears(es) == [i \in 1..Len(es) |-> getYear(es[i], FALSE)]
endYears(es) == [i \in 1..Len(es) |->
                   IF hasEnd(es[i]) THEN getYear(es[i], TRUE) ELSE getYear(es[i], FALSE)]

\* const { minYear, maxYear } = entries.length > 0 ? entries.reduce(...) : {0, 100}
minYearOf(es) == IF Len(es) > 0 THEN SeqMin(startYears(es)) ELSE 0
maxYearOf(es) == IF Len(es) > 0 THEN SeqMax(endYears(es)) ELSE 100

\* The fit scale without the 100 px of side margin.
fitScaleOf_noMargin(es, dims) ==
  Div(I(dims.width - GROUP_LABEL_WIDTH), I((maxYearOf(es) - minYearOf(es)) * 10))

\* availableWidth / (yearRange * 10), the scale at which the whole range fits
fitScaleOf(es, dims) ==
  Div(I(dims.width - GROUP_LABEL_WIDTH - 100), I((maxYearOf(es) - minYearOf(es)) * 10))

\* A lower zoom bound that is the fixed cap whatever the record set.
minScaleOf_capOnly(es, dims) == MIN_SCALE_CAP

\* const minScale = Math.min(0.05, (width - GROUP_LABEL_WIDTH - 100) / ((maxYear - minYear) * 10))
minScaleOf(es, dims) == MathMin(MIN_SCALE_CAP, fitScaleOf(es, dims))

\* ------------------------------------------------------------ stable layout

\* A sort that puts an entry before the entries of its own year.
RECURSIVE InsertByYear_beforeEqual(_, _)
InsertByYear_beforeEqual(sorted, e) ==
  IF sorted = <<>> THEN <<e>>
  ELSE IF getYear(e, FALSE) <= getYear(Head(sorted), FALSE) THEN <<e>> \o sorted
  ELSE <<Head(sorted)>> \o InsertByYear_beforeEqual(Tail(sorted), e)

\* Array.prototype.sort is stable: an entry goes after every entry whose year
\* is not greater.
RECURSIVE InsertByYear(_, _)
InsertByYear(sorted, e) ==
  IF sorted = <<>> THEN <<e>>
  ELSE IF getYear(e, FALSE) < getYear(Head(sorted), FALSE) THEN <<e>> \o sorted
  ELSE <<Head(sorted)>> \o InsertByYear(Tail(sorted), e)

\* groupEntries.sort((a, b) => getYear(a) - getYear(b))
RECURSIVE SortByYear(_)
SortByYear(s) == IF s = <<>> THEN <<>> ELSE InsertByYear(SortByYear(Front(s)), Last(s))

\* groupMap: the keys in order of first appearance.
AddKey(keys, k) == IF k \in Range(keys) THEN keys ELSE Append(keys, k)

RECURSIVE GroupKeys(_, _)
GroupKeys(es, mode) ==
  IF es = <<>> THEN <<>> ELSE AddKey(GroupKeys(Front(es), mode), getGroupKey(Last(es), mode))

GroupMembers(es, mode, key) == SelectSeq(es, LAMBDA e : getGroupKey(e, mode) = key)

\* groupFirstYear.get(key) || 0
groupFirstYear(es, mode, key) == SeqMin(startYears(GroupMembers(es, mode, key)))

RECURSIVE InsertKey(_, _, _, _)
InsertKey(sorted, k, es, mode) ==
  IF sorted = <<>> THEN <<k>>
  ELSE IF groupFirstYear(es, mode, k) < groupFirstYear(es, mode, Head(sorted))
       THEN <<k>> \o sorted
  ELSE <<Head(sorted)>> \o InsertKey(Tail(sorted), k, es, mode)

RECURSIVE SortKeys(_, _, _)
SortKeys(keys, es, mode) ==
  IF keys = <<>> THEN <<>> ELSE InsertKey(SortKeys(Front(keys), es, mode), Last(keys), es, mode)

\* [...groupMap.keys()].sort(by groupFirstYear)
sortedGroupKeys(es, mode) == SortKeys(GroupKeys(es, mode), es, mode)

\* endYear: Math.max(getYear(entry, true), startYear + textYearWidth) for a period
spanEnd(entry, textEnd) ==
  IF hasEnd(entry) THEN MathMax(I(getYear(entry, TRUE)), textEnd) ELSE textEnd

\* The occupied span end of an entry at the reference scale.
layoutEndYear(entry) ==
  spanEnd(entry, Add(I(getYear(entry, FALSE)),
                     pixelsToYears(I(measureEventWidth(entry)), LAYOUT_SCALE)))

\* A packing that leaves no gap between the spans of a row.
layoutGap_none == I(0)

\* const gap = pixelsToYears(5, LAYOUT_SCALE)
layoutGap == pixelsToYears(I(5), LAYOUT_SCALE)

\* A packing that opens a new row for every record.
firstFitRow_alwaysNew(rows, row, entry) == Len(rows)

\* let row = 0; while (rows[row] && rows[row].endYear > startYear - gap) row++;
RECURSIVE firstFitRow(_, _, _)
firstFitRow(rows, row, entry) ==
  IF row < Len(rows) /\ Gt(rows[row + 1], Sub(I(getYear(entry, FALSE)), layoutGap))
  THEN firstFitRow(rows, row + 1, entry)
  ELSE row

\* rows[row] = { endYear: endYear + gap }; layoutEntries.push({ entry, row, group })
placeAt(acc, entry, groupKey, row, cursor) ==
  [rows |-> IF row < Len(acc.rows) THEN [acc.rows EXCEPT ![row + 1] = cursor]
            ELSE Append(acc.rows, cursor),
   out |-> Append(acc.out, [entry |-> entry, row |-> row, group |-> groupKey])]

\* The body of `for (const entry of groupEntries)`.
placeEntry(acc, entry, groupKey) ==
  placeAt(acc, entry, groupKey, firstFitRow(acc.rows, 0, entry),
          Add(layoutEndYear(entry), layoutGap))

\* One group's loop: the rows cursors and the LayoutEntry list.
RECURSIVE packGroup(_, _)
packGroup(groupEntries, groupKey) ==
  IF groupEntries = <<>> THEN [rows |-> <<>>, out |-> <<>>]
  ELSE placeEntry(packGroup(Front(groupEntries), groupKey), Last(groupEntries), groupKey)

\* groups.push({ key, entries, rowCount: Math.max(rows.length, 1) })
pushGroup(acc, key, groupEntries, p) ==
  [layoutEntries |-> acc.layoutEntries \o p.out,
   groups |-> Append(acc.groups, [key |-> key, entries |-> groupEntries,
                                  rowCount |-> MaxI(Len(p.rows), 1)])]

packSorted(acc, key, groupEntries) == pushGroup(acc, key, groupEntries, packGroup(groupEntries, key))

\* `for (const groupKey of sortedGroupKeys)`
RECURSIVE packGroups(_, _, _)
packGroups(keys, es, mode) ==
  IF keys = <<>> THEN [layoutEntries |-> <<>>, groups |-> <<>>]
  ELSE packSorted(packGroups(Front(keys), es, mode), Last(keys),
                  SortByYear(GroupMembers(es, mode, Last(keys))))

\* Bands stacked one row apart whatever their height.
pushPosition_oneRowApart(acc, g) ==
  [groups |-> Append(acc.groups, [key |-> g.key, entries |-> g.entries, y |-> acc.currentY,
                                  height |-> g.rowCount * ROW_HEIGHT]),
   currentY |-> acc.currentY + ROW_HEIGHT]

\* groupPositions.push({ key, entries, y: currentY, height }); currentY += height
pushPosition(acc, g) ==
  [groups |-> Append(acc.groups, [key |-> g.key, entries |-> g.entries, y |-> acc.currentY,
                                  height |-> g.rowCount * ROW_HEIGHT]),
   currentY |-> acc.currentY + g.rowCount * ROW_HEIGHT]

RECURSIVE groupPositions(_)
groupPositions(groups) ==
  IF groups = <<>> THEN [groups |-> <<>>, currentY |-> AXIS_HEIGHT]
  ELSE pushPosition(groupPositions(Front(groups)), Last(groups))

layoutOf(layoutEntries, g) ==
  [layoutEntries |-> layoutEntries, groups |-> g.groups, totalHeight |-> g.currentY]

positionGroups(p) == layoutOf(p.layoutEntries, groupPositions(p.groups))

\* const stableLayout = useMemo(..., [entries, groupingMode, getGroupKey])
stableLayoutOf(es, mode) == positionGroups(packGroups(sortedGroupKeys(es, mode), es, mode))

\* ------------------------------------------------------------ projection

\* yearToX: (year - minYear) * pixelsPerYear + offsetX + GROUP_LABEL_WIDTH + 50
yearToX(year, view, minYear) ==
  Add(Add(Mul(Sub(year, I(minYear)), Mul(view.scale, I(10))), view.offsetX),
      I(GROUP_LABEL_WIDTH + 50))

\* An inverse that forgets the 50 px inset of the plot.
xToYear_noInset(x, view, minYear) ==
  Add(Div(Sub(Sub(x, view.offsetX), I(GROUP_LABEL_WIDTH)), Mul(view.scale, I(10))),
      I(minYear))

\* xToYear: (x - offsetX - GROUP_LABEL_WIDTH - 50) / pixelsPerYear + minYear
xToYear(x, view, minYear) ==
  Add(Div(Sub(Sub(x, view.offsetX), I(GROUP_LABEL_WIDTH + 50)), Mul(view.scale, I(10))),
      I(minYear))

\* groupYMap.get(le.group) || AXIS_HEIGHT
firstY(hit) == IF hit = <<>> \/ hit[1].y = 0 THEN AXIS_HEIGHT ELSE hit[1].y
groupYOf(groups, key) == firstY(SelectSeq(groups, LAMBDA g : g.key = key))

\* A width that is the pixel span of the date range alone for a period.
eventWidth_spanOnly(entry, startX, view, minYear) ==
  IF hasEnd(entry)
  THEN Sub(yearToX(I(getYear(entry, TRUE)), view, minYear), startX)
  ELSE I(measureEventWidth(entry))

\* width: Math.max(endX - startX, measureEventWidth) for a period
eventWidth(entry, startX, view, minYear) ==
  IF hasEnd(entry)
  THEN MathMax(Sub(yearToX(I(getYear(entry, TRUE)), view, minYear), startX),
               I(measureEventWidth(entry)))
  ELSE I(measureEventWidth(entry))

\* A projection that folds every row into row 0 once the camera is zoomed in.
positionedEvent_rowByZoom(le, startX, groupY, view, minYear) ==
  [entry |-> le.entry, x |-> startX, y |-> groupY + le.row * ROW_HEIGHT,
   width |-> eventWidth(le.entry, startX, view, minYear),
   height |-> ROW_HEIGHT - MARKER_PADDING, group |-> le.group,
   row |-> IF Ge(view.scale, I(1)) THEN 0 ELSE le.row]

\* One PositionedEvent of computeLayout().
positionedEvent(le, startX, groupY, view, minYear) ==
  [entry |-> le.entry, x |-> startX, y |-> groupY + le.row * ROW_HEIGHT,
   width |-> eventWidth(le.entry, startX, view, minYear),
   height |-> ROW_HEIGHT - MARKER_PADDING, group |-> le.group, row |-> le.row]

\* computeLayout(): one PositionedEvent per LayoutEntry, in layout order.
positionedOf(lay, view, minYear) ==
  [i \in 1..Len(lay.layoutEntries) |->
     positionedEvent(lay.layoutEntries[i],
                     yearToX(I(getYear(lay.layoutEntries[i].entry, FALSE)), view, minYear),
                     groupYOf(lay.groups, lay.layoutEntries[i].group), view, minYear)]

\* ------------------------------------------------------------ visibility culling

\* rowEvents: the (group,row) keys in order of first appearance, and each row's
\* events in positioned order.
RECURSIVE rowKeys(_)
rowKeys(positioned) ==
  IF positioned = <<>> THEN <<>>
  ELSE AddKey(rowKeys(Front(positioned)), <<Last(positioned).group, Last(positioned).row>>)

rowEventsOf(positioned, rk) ==
  SelectSeq(positioned, LAMBDA pos : <<pos.group, pos.row>> = rk)

\* A badge whose range ends at the start year of its rightmost record.
hiddenBadge_startYearMax(afterPos, beforePos, count, rightmost) ==
  [afterPos |-> afterPos, beforePos |-> beforePos, count |-> count,
   yearMin |-> getYear(afterPos.entry, FALSE),
   yearMax |-> getYear(rightmost.entry, FALSE),
   rightmostLabelWidth |-> measureEventWidth(rightmost.entry)]

\* hiddenBadges.push({ afterPos, beforePos, count, yearMin, yearMax, rightmostLabelWidth })
hiddenBadge(afterPos, beforePos, count, rightmost) ==
  [afterPos |-> afterPos, beforePos |-> beforePos, count |-> count,
   yearMin |-> getYear(afterPos.entry, FALSE),
   yearMax |-> endOrStartYear(rightmost.entry),
   rightmostLabelWidth |-> measureEventWidth(rightmost.entry)]

\* A badge whose range ends at the last hidden record of the run.
gapBadge_lastHidden(events, i, lastVisibleIdx) ==
  IF i - lastVisibleIdx - 1 > 0
  THEN <<hiddenBadge(events[lastVisibleIdx], events[i], i - lastVisibleIdx - 1, events[i - 1])>>
  ELSE <<>>

\* The badge for the run hidden between events[lastVisibleIdx] and events[i].
gapBadge(events, i, lastVisibleIdx) ==
  IF i - lastVisibleIdx - 1 > 0
  THEN <<hiddenBadge(events[lastVisibleIdx], events[i], i - lastVisibleIdx - 1, events[i])>>
  ELSE <<>>

\* The badge for the run hidden after the last visible event of the row.
trailingBadge(events, lastVisibleIdx) ==
  IF Len(events) - lastVisibleIdx > 0
  THEN <<hiddenBadge(events[lastVisibleIdx], events[lastVisibleIdx],
                     Len(events) - lastVisibleIdx, Last(events))>>
  ELSE <<>>

\* visibleSet.add(curr.entry.id); lastVisibleIdx = i
reveal(events, i, lastVisibleIdx, rest) ==
  [visible |-> {events[i].entry.id} \cup rest.visible,
   badges |-> gapBadge(events, i, lastVisibleIdx) \o rest.badges]

\* The loop over one row from index i on; lastVisibleIdx and i are 1-based.
\* curr is compared with prev = events[i - 1], hidden or not.
RECURSIVE cullRowFrom(_, _, _)
cullRowFrom(events, i, lastVisibleIdx) ==
  IF i > Len(events)
  THEN [visible |-> {}, badges |-> trailingBadge(events, lastVisibleIdx)]
  ELSE IF Ge(events[i].x, Add(Add(events[i - 1].x, events[i - 1].width), I(OVERLAP_GAP)))
       THEN reveal(events, i, lastVisibleIdx, cullRowFrom(events, i + 1, i))
       ELSE cullRowFrom(events, i + 1, lastVisibleIdx)

\* visibleSet.add(events[0].entry.id); then the loop.
firstVisible(events, r) ==
  [visible |-> {events[1].entry.id} \cup r.visible, badges |-> r.badges]

cullRow(events) == firstVisible(events, cullRowFrom(events, 2, 1))

joinRows(r, rest) ==
  [visible |-> r.visible \cup rest.visible, badges |-> r.badges \o rest.badges]

\* `for (const [, events] of rowEvents)`
RECURSIVE cullRows(_, _)
cullRows(positioned, keys) ==
  IF keys = <<>> THEN [visible |-> {}, badges |-> <<>>]
  ELSE joinRows(cullRow(rowEventsOf(positioned, Head(keys))), cullRows(positioned, Tail(keys)))

\* A visible set that is the culling pass's alone.
visibleSetOf_culledOnly(visible, selected) == visible

\* if (selectedEntry) visibleSet.add(selectedEntry.id)
visibleSetOf(visible, selected) ==
  IF selected # NoEntry THEN visible \cup {selected} ELSE visible

\* ------------------------------------------------------------ badges

\* ctx.measureText(`+${count}`).width in the 9px font, a measurement input.
badgeTextWidth(count) == IF count < 10 THEN 12 ELSE 17

badgeH == 16

\* badgeHitRects.push({ x: bx, y: by, w: bw, h: badgeH, minYear, maxYear, rightmostLabelWidth })
\* unless the badge lies outside the canvas.
pushHitRect(b, bx, y, dims) ==
  IF Gt(bx, I(dims.width)) \/ Lt(Add(bx, I(40)), I(GROUP_LABEL_WIDTH)) THEN <<>>
  ELSE <<[x |-> bx, y |-> Add(y, Div(I(b.afterPos.height - badgeH), I(2))),
          w |-> I(badgeTextWidth(b.count) + 8), h |-> I(badgeH),
          minYear |-> b.yearMin, maxYear |-> b.yearMax,
          rightmostLabelWidth |-> b.rightmostLabelWidth]>>

\* A badge between two visible events: skipped when the gap is under 24 px.
gapHitRect(b, afterEndX, gapWidth, y, dims) ==
  IF Lt(gapWidth, I(24)) THEN <<>>
  ELSE pushHitRect(b, Add(afterEndX, Div(Sub(gapWidth, I(badgeTextWidth(b.count) + 8)), I(2))),
                   y, dims)

placeBadge(b, afterEndX, y, dims) ==
  IF b.afterPos = b.beforePos
  THEN pushHitRect(b, Add(afterEndX, I(4)), y, dims)
  ELSE gapHitRect(b, afterEndX, Sub(b.beforePos.x, afterEndX), y, dims)

rowOnCanvas(b, y, dims) ==
  ~(Lt(Add(y, I(b.afterPos.height)), I(AXIS_HEIGHT)) \/ Gt(y, I(dims.height)))

badgeAt(b, y, dims) ==
  IF rowOnCanvas(b, y, dims)
  THEN placeBadge(b, Add(b.afterPos.x, b.afterPos.width), y, dims)
  ELSE <<>>

\* The hit rectangle of one hidden badge, or <<>> when the paint loop skips it.
badgeHitRect(b, view, dims) == badgeAt(b, Add(I(b.afterPos.y), view.offsetY), dims)

RECURSIVE badgeHitRectsOf(_, _, _)
badgeHitRectsOf(badges, view, dims) ==
  IF badges = <<>> THEN <<>>
  ELSE badgeHitRect(Head(badges), view, dims) \o badgeHitRectsOf(Tail(badges), view, dims)

\* ------------------------------------------------------------ the draw effect

\* What one run of the draw effect leaves behind: positionedEventsRef,
\* totalHeightRef, badgeHitRectsRef, and the frame's visibleSet and hiddenBadges.
frameOf(positioned, totalHeight, culled, view, dims, selected) ==
  [positioned |-> positioned,
   totalHeight |-> totalHeight,
   visibleSet |-> visibleSetOf(culled.visible, selected),
   hiddenBadges |-> culled.badges,
   badgeHitRects |-> badgeHitRectsOf(culled.badges, view, dims)]

paint(positioned, totalHeight, view, dims, selected) ==
  frameOf(positioned, totalHeight, cullRows(positioned, rowKeys(positioned)), view, dims,
          selected)

Draw(es, lay, view, dims, selected) ==
  paint(positionedOf(lay, view, minYearOf(es)), lay.totalHeight, view, dims, selected)

\* ------------------------------------------------------------ bounds and inputs

\* The number of handler runs explored in one behaviour.
MaxSteps == 3

\* The host's record list (timeline_entries.json stands behind it): five point
\* records and one period.  At LAYOUT_SCALE a 40 px label is 8 years wide, so
\* 100, 110, 125 and 500 share a row, the period starting in 104 takes the row
\* below them, and 100 and 110 collide on screen below scale 0.45.  With the
\* record of 640 the range is 540 years: the whole range fits an 800 px
\* container at scale 0.1 and a 476 px container at 0.04, below the 0.05 cap.
E1 == Entry("e1", CE(100), NoDate, 40, "A", "X")
E2 == Entry("e2", CE(110), NoDate, 40, "A", "X")
E3 == Entry("e3", CE(125), NoDate, 40, "A", "Y")
E4 == Entry("e4", CE(500), NoDate, 40, "A", "Y")
E5 == Entry("e5", CE(104), CE(108), 60, "A", "Y")
E6 == Entry("e6", CE(640), NoDate, 40, "B", "Y")

\* The filtered lists the host can pass as the `entries` prop.
EntrySets == { <<E1, E2, E3, E4, E5, E6>>, <<E1, E2, E5>>, <<E4>>, <<>> }

\* Container sizes the ResizeObserver can report (wider than the fixed margins).
DimSets == { [width |-> 800, height |-> 600], [width |-> 800, height |-> 80],
             [width |-> 476, height |-> 600] }

\* Wheel events: deltaX, deltaY, ctrl/meta, shift, pointer x.
WheelEvent(dx, dy, zoom, shift, mouseX) ==
  [deltaX |-> dx, deltaY |-> dy, zoom |-> zoom, shift |-> shift, mouseX |-> mouseX]

WheelInputs ==
  { WheelEvent(0, 40, FALSE, FALSE, 400), WheelEvent(0, -40, FALSE, FALSE, 400),
    WheelEvent(40, 8, FALSE, FALSE, 400), WheelEvent(0, 40, FALSE, TRUE, 400),
    WheelEvent(0, -20, TRUE, FALSE, 400), WheelEvent(0, 20, TRUE, FALSE, 300),
    WheelEvent(0, 100, TRUE, FALSE, 400), WheelEvent(0, -400, TRUE, FALSE, 400) }

\* Where the pointer goes down, and how far a captured move has travelled.
DownPoint == [x |-> 400, y |-> 300]
DragDeltas == { [dx |-> 3, dy |-> -2], [dx |-> 50, dy |-> -30], [dx |-> 0, dy |-> 40] }

VARIABLES
  entries,          \* props.entries
  groupingMode,     \* props.groupingMode
  selectedEntry,    \* props.selectedEntry (an id, or NoEntry)
  dimensions,       \* useState dimensions
  viewState,        \* useState viewState: the rendered camera
  targetState,      \* targetStateRef.current
  isAnimating,      \* isAnimatingRef.current
  rafPending,       \* requestAnimationFrame callbacks scheduled and not yet run
  isDragging,       \* useState isDragging
  dragStart,        \* useState dragStart
  hasDragged,       \* hasDraggedRef.current
  downView,         \* history: the rendered camera when the pointer last went down
  pointer,          \* "idle", "down" (between mousedown and mouseup), "click" (click event due)
  hoveredEvent,     \* useState hoveredEvent (an id, or NoEntry)
  tooltipTimer,     \* tooltipTimeoutRef: the entry a pending timer will reveal, or NoEntry
  tooltipData,      \* useState tooltipData (an id, or NoEntry)
  hasMeasured,      \* hasMeasured.current
  initialFitDone,   \* initialFitDone.current
  layout,           \* the stableLayout memo
  frame,            \* what the last run of the draw effect left in the refs
  lastOp,           \* the handler that ran last, with its input and outcome
  steps,
  sw                \* the image service worker: its cache and the fetch events it was given

vars == <<entries, groupingMode, selectedEntry, dimensions, viewState, targetState,
          isAnimating, rafPending, isDragging, dragStart, hasDragged, downView, pointer,
          hoveredEvent, tooltipTimer, tooltipData, hasMeasured, initialFitDone,
          layout, frame, lastOp, steps, sw>>

\* The component's own state, which the service worker never touches.
canvasVars == <<entries, groupingMode, selectedEntry, dimensions, viewState, targetState,
                isAnimating, rafPending, isDragging, dragStart, hasDragged, downView,
                pointer, hoveredEvent, tooltipTimer, tooltipData, hasMeasured,
                initialFitDone, layout, frame, lastOp, steps>>

\* ------------------------------------------------------------ service worker data

\* The fetch events of one behaviour.
MaxRequests == 3

\* A URL as its parts; url.includes(s) is true when some part is s.
ImageUrl == <<"upload.wikimedia.org", "a.jpg">>
OtherImageUrl == <<"upload.wikimedia.org", "b.jpg">>
PageUrl == <<"kelsolaar.github.io", "index.html">>
QueryUrl == <<"example.org", "upload.wikimedia.org">>
Urls == {ImageUrl, OtherImageUrl, PageUrl, QueryUrl}

\* What the network can answer: a 200, a 404, or no response (fetch rejects).
NoResponse == [status |-> 0, ok |-> FALSE, body |-> "none"]
NetworkAnswers(url) ==
  { [status |-> 200, ok |-> TRUE, body |-> url], [status |-> 404, ok |-> FALSE, body |-> url],
    NoResponse }

\* A fetch event not yet dispatched.
NoRequest ==
  [url |-> <<>>, pc |-> "idle", cached |-> NoResponse, network |-> NoResponse,
   fetched |-> FALSE, answer |-> NoResponse, source |-> "none", put |-> FALSE]

\* The worker after install and activate: the cache wiki-images-v1 is empty.
swInstalled ==
  [cache |-> [u \in Urls |-> NoResponse], requests |-> [i \in 1..MaxRequests |-> NoRequest]]

minYear == minYearOf(entries)
maxYear == maxYearOf(entries)
minScale == minScaleOf(entries, dimensions)

Op(name, arg, out) == [name |-> name, arg |-> arg, out |-> out]

entryById(es, id) == (SelectSeq(es, LAMBDA e : e.id = id))[1]

InitialView == [offsetX |-> I(0), offsetY |-> I(0), scale |-> Q(3, 10)]

\* The component after its first render, nothing measured yet.
Mounted(es) ==
  /\ entries = es
  /\ groupingMode = "dynasty"
  /\ selectedEntry = NoEntry
  /\ dimensions = [width |-> 800, height |-> 600]
  /\ viewState = InitialView
  /\ targetState = InitialView
  /\ isAnimating = FALSE
  /\ rafPending = 0
  /\ isDragging = FALSE
  /\ dragStart = [x |-> 0, y |-> 0, offsetX |-> I(0), offsetY |-> I(0)]
  /\ hasDragged = FALSE
  /\ downView = InitialView
  /\ pointer = "idle"
  /\ hoveredEvent = NoEntry
  /\ tooltipTimer = NoEntry
  /\ tooltipData = NoEntry
  /\ hasMeasured = FALSE
  /\ initialFitDone = FALSE
  /\ layout = stableLayoutOf(entries, groupingMode)
  /\ frame = Draw(entries, layout, viewState, dimensions, selectedEntry)
  /\ lastOp = Op("mount", "", "")
  /\ sw = swInstalled

InitWith(es) == Mounted(es) /\ steps = 0

Init == \E es \in EntrySets : InitWith(es)

\* ------------------------------------------------------------ render

\* Every handler ends in a re-render: the stableLayout memo, then the draw
\* effect, which refreshes the refs the next handler reads.  The effect on
\* [viewState.offsetX, offsetY, scale] clears the tooltip; `tt` is what the
\* handler itself left in tooltipData.
Render(tt, op) ==
  /\ layout' = stableLayoutOf(entries', groupingMode')
  /\ frame' = Draw(entries', layout', viewState', dimensions', selectedEntry')
  /\ tooltipData' = IF viewState' # viewState THEN NoEntry ELSE tt
  /\ lastOp' = op
  /\ steps' = steps + 1
  /\ sw' = sw

\* startAnimation()
startAnimation ==
  /\ isAnimating' = TRUE
  /\ rafPending' = IF isAnimating THEN rafPending ELSE rafPending + 1

\* setTargetState(updater): the new target, then startAnimation().
setTargetState(t) ==
  /\ targetState' = t
  /\ startAnimation

\* Math.max(lo, Math.min(5, s))
clampScale(s, lo) == MathMax(lo, MathMin(I(MAX_SCALE), s))

\* Math.min(0, dimensions.height - AXIS_HEIGHT - totalHeight)
minOffsetYOf(dims, totalHeight) ==
  MathMin(I(0), I(dims.height - AXIS_HEIGHT - totalHeight))

\* Math.max(minOffsetY, Math.min(maxOffsetY, y))
clampOffsetY(y, dims, totalHeight) ==
  MathMax(minOffsetYOf(dims, totalHeight), MathMin(I(0), y))

\* ------------------------------------------------------------ camera targets

View(offsetX, offsetY, scale) == [offsetX |-> offsetX, offsetY |-> offsetY, scale |-> scale]

\* zoomIn: prev => ({ ...prev, scale: Math.min(5, prev.scale * 1.3) })
zoomInTarget(t) == [t EXCEPT !.scale = MathMin(I(MAX_SCALE), Mul(t.scale, ZOOM_STEP))]

\* A zoomOut by another factor than zoomIn's.
zoomOutTarget_halving(t, lo) == [t EXCEPT !.scale = MathMax(lo, Div(t.scale, I(2)))]

\* zoomOut: prev => ({ ...prev, scale: Math.max(minScale, prev.scale / 1.3) })
zoomOutTarget(t, lo) == [t EXCEPT !.scale = MathMax(lo, Div(t.scale, ZOOM_STEP))]

\* fit(): `-selectedEntry.date_start.year` for BCE, without Math.abs.
fitEntryYear(entry) ==
  IF entry.date_start.era = "BCE" THEN -entry.date_start.year ELSE entry.date_start.year

\* positionedEventsRef.current.find(p => p.entry.id === id), <<>> when absent
findPos(positioned, id) == SelectSeq(positioned, LAMBDA pos : pos.entry.id = id)

\* -(pos.y - height / 2 + ROW_HEIGHT / 2 - AXIS_HEIGHT)
centreOffsetY(pos, dims) ==
  Neg(Add(Sub(I(pos.y), Div(I(dims.height), I(2))), I((ROW_HEIGHT \div 2) - AXIS_HEIGHT)))

\* -(entryYear - minYear) * pixelsPerYear + (width - GROUP_LABEL_WIDTH) / 2 - 50
centreOffsetX(entryYear, lo, scale, dims) ==
  Sub(Add(Neg(Mul(I(entryYear - lo), Mul(scale, I(10)))),
          Div(I(dims.width - GROUP_LABEL_WIDTH), I(2))),
      I(50))

\* fit(): the vertical offset.
fitOffsetY(dims, totalHeight, pos, selected) ==
  IF totalHeight - AXIS_HEIGHT <= dims.height - AXIS_HEIGHT
  THEN Div(I((dims.height - AXIS_HEIGHT) - (totalHeight - AXIS_HEIGHT)), I(2))
  ELSE IF selected # NoEntry /\ pos # <<>>
       THEN clampOffsetY(centreOffsetY(pos[1], dims), dims, totalHeight)
       ELSE I(0)

\* fit(): the horizontal offset.
fitOffsetX(es, dims, finalScale, selected) ==
  IF selected # NoEntry
  THEN centreOffsetX(fitEntryYear(entryById(es, selected)), minYearOf(es), finalScale, dims)
  ELSE I(0)

fitView(es, dims, totalHeight, pos, selected, finalScale) ==
  View(fitOffsetX(es, dims, finalScale, selected),
       fitOffsetY(dims, totalHeight, pos, selected), finalScale)

\* fit()
fitTarget(es, dims, totalHeight, positioned, selected) ==
  fitView(es, dims, totalHeight, findPos(positioned, selected), selected,
          clampScale(fitScaleOf(es, dims), minScaleOf(es, dims)))

\* scrollToEntry: the positioned events of the entry's (group, row)
sameRowOf(positioned, pos) ==
  SelectSeq(positioned, LAMBDA q : q.group = pos.group /\ q.row = pos.row)

indexIn(sameRow, id) == CHOOSE k \in 1..Len(sameRow) : sameRow[k].entry.id = id

\* (measureEventWidth(left.entry) + OVERLAP_GAP) / (yearGap * 10), when yearGap > 0
scaleForGap(width, yearGap, neededScale) ==
  IF yearGap > 0 THEN MathMax(neededScale, Div(I(width + OVERLAP_GAP), I(yearGap * 10)))
  ELSE neededScale

neededFromLeft(sameRow, idx) ==
  IF idx > 1
  THEN scaleForGap(measureEventWidth(sameRow[idx - 1].entry),
                   getYear(sameRow[idx].entry, FALSE) - getYear(sameRow[idx - 1].entry, FALSE),
                   I(0))
  ELSE I(0)

neededAt(sameRow, idx) ==
  IF idx < Len(sameRow)
  THEN scaleForGap(measureEventWidth(sameRow[idx].entry),
                   getYear(sameRow[idx + 1].entry, FALSE) - getYear(sameRow[idx].entry, FALSE),
                   neededFromLeft(sameRow, idx))
  ELSE neededFromLeft(sameRow, idx)

\* .sort((a, b) => getYear(a.entry) - getYear(b.entry)), a stable sort
RECURSIVE InsertPosByYear(_, _)
InsertPosByYear(sorted, p) ==
  IF sorted = <<>> THEN <<p>>
  ELSE IF getYear(p.entry, FALSE) < getYear(Head(sorted).entry, FALSE) THEN <<p>> \o sorted
  ELSE <<Head(sorted)>> \o InsertPosByYear(Tail(sorted), p)

RECURSIVE SortByYearPos(_)
SortByYearPos(s) ==
  IF s = <<>> THEN <<>> ELSE InsertPosByYear(SortByYearPos(Front(s)), Last(s))

inRow(sameRow, pos) == neededAt(sameRow, indexIn(sameRow, pos.entry.id))

\* scrollToEntry: the zoom that clears the same-row neighbours, 0 when none asks.
neededScaleOf(positioned, pos) == inRow(SortByYearPos(sameRowOf(positioned, pos)), pos)

\* const finalScale = neededScale > 0 ? Math.min(5, neededScale * 1.1) : target.scale
scrollScale(neededScale, t) ==
  IF Gt(neededScale, I(0)) THEN MathMin(I(MAX_SCALE), Mul(neededScale, Q(11, 10))) ELSE t.scale

scrollView(es, dims, pos, finalScale) ==
  View(centreOffsetX(getYear(pos.entry, FALSE), minYearOf(es), finalScale, dims),
       centreOffsetY(pos, dims), finalScale)

scrollTo(es, dims, positioned, t, pos) ==
  scrollView(es, dims, pos, scrollScale(neededScaleOf(positioned, pos), t))

\* scrollToEntry(entry)
scrollTarget(es, dims, positioned, t, id) ==
  scrollTo(es, dims, positioned, t, findPos(positioned, id)[1])

\* A wheel zoom that rescales and leaves the horizontal offset alone.
zoomAbout_keepOffset(vs, w, lo, yearAtMouse, newScale) == View(vs.offsetX, vs.offsetY, newScale)

\* handleWheel with ctrl/meta: the new offset keeps yearAtMouse under the pointer.
zoomAbout(vs, w, lo, yearAtMouse, newScale) ==
  View(Sub(Sub(I(w.mouseX), Mul(Sub(yearAtMouse, I(lo)), Mul(newScale, I(10)))),
           I(GROUP_LABEL_WIDTH + 50)),
       vs.offsetY, newScale)

\* handleWheel with ctrl/meta: zoom about the pointer, from the rendered camera.
wheelZoomTarget(vs, w, lo, loScale) ==
  zoomAbout(vs, w, lo,
            Add(Div(Sub(Sub(I(w.mouseX), vs.offsetX), I(GROUP_LABEL_WIDTH + 50)),
                    Mul(vs.scale, I(10))), I(lo)),
            clampScale(Mul(vs.scale, Sub(I(1), Mul(I(w.deltaY), ZOOM_SPEED))), loScale))

\* handleWheel without the modifier: horizontal when shift or |deltaX| > |deltaY|.
wheelPanHorizontal(w) == w.shift \/ AbsI(w.deltaX) > AbsI(w.deltaY)

\* A wheel pan that moves both offsets by the event's two deltas.
wheelPanTarget_bothAxes(t, w, dims, totalHeight) ==
  [t EXCEPT !.offsetX = Sub(t.offsetX, Mul(I(w.deltaX), SCROLL_SPEED)),
            !.offsetY = clampOffsetY(Sub(t.offsetY, Mul(I(w.deltaY), SCROLL_SPEED)),
                                     dims, totalHeight)]

wheelPanTarget(t, w, dims, totalHeight) ==
  IF wheelPanHorizontal(w)
  THEN [t EXCEPT !.offsetX = Sub(t.offsetX, Mul(I(w.deltaX), SCROLL_SPEED))]
  ELSE [t EXCEPT !.offsetY = clampOffsetY(Sub(t.offsetY, Mul(I(w.deltaY), SCROLL_SPEED)),
                                          dims, totalHeight)]

\* A badge zoom that forgets the 50 px inset when it places the left end.
badgeView_noInset(t, lo, fitMin, newScale) ==
  [t EXCEPT !.scale = newScale,
            !.offsetX = Mul(Mul(Neg(Sub(fitMin, I(lo))), newScale), I(10))]

\* handleClick on a badge: newOffsetX = -(fitMin - minYear) * newScale * 10 - 50
badgeView(t, lo, fitMin, newScale) ==
  [t EXCEPT !.scale = newScale,
            !.offsetX = Sub(Mul(Mul(Neg(Sub(fitMin, I(lo))), newScale), I(10)), I(50))]

\* newScale = Math.max(0.05, Math.min(5, availableWidth / (fitRange * 10)))
badgeFit(badge, t, dims, lo, padding) ==
  badgeView(t, lo, Sub(I(badge.minYear), padding),
            MathMax(MIN_SCALE_CAP,
                    MathMin(I(MAX_SCALE),
                            Div(I(dims.width - GROUP_LABEL_WIDTH - badge.rightmostLabelWidth),
                                Mul(Sub(Add(I(badge.maxYear), padding),
                                        Sub(I(badge.minYear), padding)), I(10))))))

\* padding = Math.max(yearRange * 0.15, 20)
badgeTarget(badge, t, dims, lo) ==
  badgeFit(badge, t, dims, lo, MathMax(Mul(I(badge.maxYear - badge.minYear), Q(15, 100)), I(20)))

\* handleMouseMove while dragging: the state written to both camera snapshots.
dragState(ds, dx, dy, vs, dims, totalHeight) ==
  View(Add(ds.offsetX, I(dx)), clampOffsetY(Add(ds.offsetY, I(dy)), dims, totalHeight),
       vs.scale)

\* if (offsetXDiff < 0.5 && offsetYDiff < 0.5 && scaleDiff < 0.0001)
settles(target, next) ==
  /\ Lt(MathAbs(Sub(target.offsetX, next.offsetX)), Q(1, 2))
  /\ Lt(MathAbs(Sub(target.offsetY, next.offsetY)), Q(1, 2))
  /\ Lt(MathAbs(Sub(target.scale, next.scale)), Q(1, 10000))

\* A last frame that stops the animation where the interpolation left the camera.
stepOrSnap_noSnap(target, next) == [settled |-> settles(target, next), view |-> next]

stepOrSnap(target, next) ==
  [settled |-> settles(target, next), view |-> IF settles(target, next) THEN target ELSE next]

\* animateToTarget's updater: the next rendered camera, and whether it settled.
animateStep(prev, target) ==
  stepOrSnap(target, View(lerp(prev.offsetX, target.offsetX, LERP_FACTOR),
                          lerp(prev.offsetY, target.offsetY, LERP_FACTOR),
                          lerp(prev.scale, target.scale, LERP_FACTOR)))

\* ------------------------------------------------------------ hit-testing

inRect(pt, x, y, w, h) ==
  Ge(pt.x, x) /\ Le(pt.x, Add(x, w)) /\ Ge(pt.y, y) /\ Le(pt.y, Add(y, h))

\* The badges of badgeHitRectsRef that contain the point, in list order.
badgesAt(fr, pt) == SelectSeq(fr.badgeHitRects, LAMBDA b : inRect(pt, b.x, b.y, b.w, b.h))

\* The entries of positionedEventsRef that contain the point, in list order.
recordsAt(fr, vs, pt) ==
  SelectSeq(fr.positioned,
            LAMBDA pos : inRect(pt, pos.x, Add(I(pos.y), vs.offsetY), pos.width, I(pos.height)))

\* if (x < GROUP_LABEL_WIDTH || y < AXIS_HEIGHT) return
inPlot(pt) == ~(Lt(pt.x, I(GROUP_LABEL_WIDTH)) \/ Lt(pt.y, I(AXIS_HEIGHT)))

firstId(hits) == IF hits # <<>> THEN hits[1].entry.id ELSE NoEntry

\* A hover hit-test that looks for a record whether or not a badge is under the pointer.
foundAt_ignoringBadges(fr, vs, pt) == firstId(recordsAt(fr, vs, pt))

\* handleMouseMove: `found`, searched only when the pointer is on no badge.
foundAt(fr, vs, pt) == IF badgesAt(fr, pt) # <<>> THEN NoEntry ELSE firstId(recordsAt(fr, vs, pt))

\* for (let pi = positioned.length - 1; pi >= 0; pi--): the list, last entry first.
reversed(s) == [i \in 1..Len(s) |-> s[Len(s) + 1 - i]]

\* The paint loop's three `continue` tests: in visibleSet and touching the canvas.
isPainted(fr, vs, dims, pos) ==
  /\ pos.entry.id \in fr.visibleSet
  /\ ~(Lt(Add(pos.x, pos.width), I(GROUP_LABEL_WIDTH)) \/ Gt(pos.x, I(dims.width)))
  /\ ~(Lt(Add(Add(I(pos.y), vs.offsetY), I(pos.height)), I(AXIS_HEIGHT))
       \/ Gt(Add(I(pos.y), vs.offsetY), I(dims.height)))

\* The records in the order drawEvent paints them: the list backwards, the
\* selected record deferred to the end.
paintOrder(fr, vs, dims, selected) ==
  SelectSeq(reversed(fr.positioned),
            LAMBDA pos : isPainted(fr, vs, dims, pos) /\ pos.entry.id # selected)
  \o SelectSeq(reversed(fr.positioned),
               LAMBDA pos : isPainted(fr, vs, dims, pos) /\ pos.entry.id = selected)

\* Pointer positions tried for hover and click: the centre of every projected
\* record, a point 5 px inside its left end (where it can lie over the record
\* before it), the centre of every badge rectangle, an empty spot and a spot in
\* the label column.
HitPoints ==
  { [x |-> Add(frame.positioned[i].x, Div(frame.positioned[i].width, I(2))),
     y |-> Add(Add(I(frame.positioned[i].y), viewState.offsetY), I(12))]
      : i \in 1..Len(frame.positioned) }
  \cup { [x |-> Add(frame.positioned[i].x, I(5)),
          y |-> Add(Add(I(frame.positioned[i].y), viewState.offsetY), I(12))]
           : i \in 1..Len(frame.positioned) }
  \cup { [x |-> Add(frame.badgeHitRects[i].x, Div(frame.badgeHitRects[i].w, I(2))),
          y |-> Add(frame.badgeHitRects[i].y, I(8))] : i \in 1..Len(frame.badgeHitRects) }
  \cup { [x |-> I(700), y |-> I(500)], [x |-> I(80), y |-> I(60)] }

\* ------------------------------------------------------------ imperative handle

hostVars == <<entries, groupingMode, dimensions, hasMeasured, initialFitDone>>
pointerVars == <<isDragging, dragStart, hasDragged, downView, pointer>>
hoverVars == <<hoveredEvent, tooltipTimer>>

\* lastOp keeps the target zoomIn started from, and zoomOut the call it followed.
ZoomIn ==
  /\ steps < MaxSteps
  /\ setTargetState(zoomInTarget(targetState))
  /\ UNCHANGED <<hostVars, pointerVars, hoverVars, selectedEntry, viewState>>
  /\ Render(tooltipData, Op("zoomIn", targetState, ""))

ZoomOut ==
  /\ steps < MaxSteps
  /\ setTargetState(zoomOutTarget(targetState, minScale))
  /\ UNCHANGED <<hostVars, pointerVars, hoverVars, selectedEntry, viewState>>
  /\ Render(tooltipData, Op("zoomOut", "", lastOp))

Fit ==
  /\ steps < MaxSteps
  /\ setTargetState(fitTarget(entries, dimensions, layout.totalHeight, frame.positioned,
                              selectedEntry))
  /\ UNCHANGED <<hostVars, pointerVars, hoverVars, selectedEntry, viewState>>
  /\ Render(tooltipData, Op("fit", "", ""))

\* The host's navigateToEntry: select the entry, then scrollToEntry(entry).
\* lastOp keeps the target the call started from.
ScrollToEntry(id) ==
  /\ steps < MaxSteps
  /\ selectedEntry' = id
  /\ setTargetState(scrollTarget(entries, dimensions, frame.positioned, targetState, id))
  /\ UNCHANGED <<hostVars, pointerVars, hoverVars, viewState>>
  /\ Render(tooltipData, Op("scrollToEntry", id, targetState))

\* ------------------------------------------------------------ animation

\* setViewState(updater) and the re-schedule that follows it.
\* animateToTarget: the updater passed to setViewState clears isAnimatingRef
\* when the step settles.  React runs an updater either at once, inside the
\* setViewState call, or while it renders, after the callback has returned
\* (`late`); in the second case `if (isAnimatingRef.current)` still reads
\* the value the callback started with.
applyFrame(r, late) ==
  /\ viewState' = r.view
  /\ isAnimating' = (isAnimating /\ ~r.settled)
  /\ rafPending' = (rafPending - 1)
                    + (IF isAnimating /\ (late \/ ~r.settled) THEN 1 ELSE 0)

\* One requestAnimationFrame callback: animateToTarget.
AnimationFrame ==
  /\ steps < MaxSteps
  /\ rafPending > 0
  /\ \E late \in BOOLEAN : applyFrame(animateStep(viewState, targetState), late)
  /\ UNCHANGED <<hostVars, pointerVars, hoverVars, selectedEntry, targetState>>
  /\ Render(tooltipData, Op("frame", "", ""))

\* ------------------------------------------------------------ wheel

wheelKind(w) ==
  IF w.zoom THEN "wheelZoom" ELSE IF wheelPanHorizontal(w) THEN "wheelPanX" ELSE "wheelPanY"

Wheel(w) ==
  /\ steps < MaxSteps
  /\ IF w.zoom
     THEN /\ targetState' = wheelZoomTarget(viewState, w, minYear, minScale)
          /\ startAnimation
     ELSE setTargetState(wheelPanTarget(targetState, w, dimensions, frame.totalHeight))
  /\ UNCHANGED <<hostVars, pointerVars, hoverVars, selectedEntry, viewState>>
  /\ Render(tooltipData, Op(wheelKind(w), w, ""))

\* ------------------------------------------------------------ pointer

MouseDown ==
  /\ steps < MaxSteps
  /\ pointer = "idle"
  /\ isAnimating' = FALSE
  /\ rafPending' = IF rafPending > 0 THEN rafPending - 1 ELSE 0
  /\ tooltipTimer' = NoEntry
  /\ isDragging' = TRUE
  /\ hasDragged' = FALSE
  /\ dragStart' = [x |-> DownPoint.x, y |-> DownPoint.y,
                   offsetX |-> targetState.offsetX, offsetY |-> targetState.offsetY]
  /\ downView' = viewState
  /\ pointer' = "down"
  /\ UNCHANGED <<hostVars, selectedEntry, viewState, targetState, hoveredEvent>>
  /\ Render(NoEntry, Op("mouseDown", "", ""))

\* A captured move that writes the rendered camera and leaves the target behind.
DragMove_viewOnly(d) ==
  /\ steps < MaxSteps
  /\ isDragging
  /\ hasDragged' = (hasDragged \/ AbsI(d.dx) > 5 \/ AbsI(d.dy) > 5)
  /\ viewState' = dragState(dragStart, d.dx, d.dy, viewState, dimensions, frame.totalHeight)
  /\ UNCHANGED <<hostVars, hoverVars, selectedEntry, targetState, isAnimating, rafPending,
                 isDragging, dragStart, downView, pointer>>
  /\ Render(tooltipData, Op("dragMove", d, viewState))

\* handleMouseMove while isDragging; lastOp keeps the camera rendered before the move.
DragMove(d) ==
  /\ steps < MaxSteps
  /\ isDragging
  /\ hasDragged' = (hasDragged \/ AbsI(d.dx) > 5 \/ AbsI(d.dy) > 5)
  /\ viewState' = dragState(dragStart, d.dx, d.dy, viewState, dimensions, frame.totalHeight)
  /\ targetState' = viewState'
  /\ UNCHANGED <<hostVars, hoverVars, selectedEntry, isAnimating, rafPending,
                 isDragging, dragStart, downView, pointer>>
  /\ Render(tooltipData, Op("dragMove", d, viewState))

hoverOutcome(pt, found) ==
  IF ~inPlot(pt) THEN "outside"
  ELSE IF badgesAt(frame, pt) # <<>> THEN "badge"
  ELSE IF found # NoEntry THEN "record" ELSE "none"

HoverOn(pt, found) ==
  /\ hoveredEvent' = IF inPlot(pt) THEN found ELSE NoEntry
  /\ tooltipTimer' = IF inPlot(pt) THEN found ELSE tooltipTimer
  /\ Render(IF ~inPlot(pt) \/ found # NoEntry THEN tooltipData ELSE NoEntry,
            Op("hover", pt, hoverOutcome(pt, found)))

\* handleMouseMove while not dragging: hover hit-test and the tooltip timer.
Hover(pt) ==
  /\ steps < MaxSteps
  /\ ~isDragging
  /\ UNCHANGED <<hostVars, pointerVars, selectedEntry, viewState, targetState,
                 isAnimating, rafPending>>
  /\ HoverOn(pt, foundAt(frame, viewState, pt))

\* The 400 ms timer set by a hover runs; lastOp keeps the handler it ran after.
TooltipFire ==
  /\ steps < MaxSteps
  /\ tooltipTimer # NoEntry
  /\ tooltipTimer' = NoEntry
  /\ UNCHANGED <<hostVars, pointerVars, selectedEntry, viewState, targetState,
                 isAnimating, rafPending, hoveredEvent>>
  /\ Render(tooltipTimer, Op("tooltip", tooltipTimer, lastOp))

MouseUp ==
  /\ steps < MaxSteps
  /\ pointer = "down"
  /\ isDragging' = FALSE
  /\ pointer' = "click"
  /\ UNCHANGED <<hostVars, hoverVars, selectedEntry, viewState, targetState,
                 isAnimating, rafPending, dragStart, hasDragged, downView>>
  /\ Render(tooltipData, Op("mouseUp", "", ""))

MouseLeave ==
  /\ steps < MaxSteps
  /\ isDragging' = FALSE
  /\ hoveredEvent' = NoEntry
  /\ tooltipTimer' = NoEntry
  /\ pointer' = IF pointer = "down" THEN "idle" ELSE pointer
  /\ UNCHANGED <<hostVars, selectedEntry, viewState, targetState,
                 isAnimating, rafPending, dragStart, hasDragged, downView>>
  /\ Render(NoEntry, Op("mouseLeave", "", ""))

\* A click handler that does not look at the dragged flag.
clickOutcome_ignoringDrag(pt) ==
  IF ~inPlot(pt) THEN "outside"
  ELSE IF badgesAt(frame, pt) # <<>> THEN "badge"
  ELSE IF recordsAt(frame, viewState, pt) # <<>> THEN "select" ELSE "deselect"

\* A click handler that looks for a record before it looks for a badge.
clickOutcome_recordsFirst(pt) ==
  IF hasDragged THEN "dragged"
  ELSE IF ~inPlot(pt) THEN "outside"
  ELSE IF recordsAt(frame, viewState, pt) # <<>> THEN "select"
  ELSE IF badgesAt(frame, pt) # <<>> THEN "badge" ELSE "deselect"

clickOutcome(pt) ==
  IF hasDragged THEN "dragged"
  ELSE IF ~inPlot(pt) THEN "outside"
  ELSE IF badgesAt(frame, pt) # <<>> THEN "badge"
  ELSE IF recordsAt(frame, viewState, pt) # <<>> THEN "select" ELSE "deselect"

ClickAs(pt, outcome) ==
  /\ IF outcome = "badge"
     THEN setTargetState(badgeTarget(badgesAt(frame, pt)[1], targetState, dimensions, minYear))
     ELSE UNCHANGED <<targetState, isAnimating, rafPending>>
  /\ selectedEntry' = IF outcome = "select" THEN firstId(recordsAt(frame, viewState, pt))
                      ELSE IF outcome = "deselect" THEN NoEntry ELSE selectedEntry
  /\ Render(tooltipData, Op("click", pt, outcome))

\* handleClick; onSelectEntry is the host's selectEntry, which sets the selection.
Click(pt) ==
  /\ steps < MaxSteps
  /\ pointer = "click"
  /\ pointer' = "idle"
  /\ UNCHANGED <<hostVars, hoverVars, viewState, isDragging, dragStart, hasDragged, downView>>
  /\ ClickAs(pt, clickOutcome(pt))

\* ------------------------------------------------------------ host and container

\* The dependency list [dimensions.width, maxYear, minYear, minScale] changed.
fitDepsChanged ==
  \/ dimensions'.width # dimensions.width
  \/ maxYearOf(entries') # maxYear
  \/ minYearOf(entries') # minYear
  \/ minScaleOf(entries', dimensions') # minScale

\* { offsetX: 0, offsetY: 0, scale: Math.max(minScale, Math.min(5, fitScale)) }
initialFitView ==
  View(I(0), I(0), clampScale(fitScaleOf(entries', dimensions'),
                              minScaleOf(entries', dimensions')))

\* The "fit to view on initial load" effect, run when one of its dependencies changed.
InitialFitEffect ==
  IF fitDepsChanged /\ ~initialFitDone /\ hasMeasured'
  THEN /\ initialFitDone' = TRUE
       /\ IF maxYearOf(entries') - minYearOf(entries') <= 0
          THEN UNCHANGED <<viewState, targetState>>
          ELSE targetState' = initialFitView /\ viewState' = targetState'
  ELSE UNCHANGED <<initialFitDone, viewState, targetState>>

\* The ResizeObserver callback.
Resize(d) ==
  /\ steps < MaxSteps
  /\ d # dimensions \/ ~hasMeasured
  /\ dimensions' = d
  /\ hasMeasured' = TRUE
  /\ UNCHANGED <<entries, groupingMode, pointerVars, hoverVars, selectedEntry,
                 isAnimating, rafPending>>
  /\ InitialFitEffect
  /\ Render(tooltipData, Op("resize", d, ""))

\* The host passes another filtered list; its re-sync effect drops a selection
\* that is no longer in the list.
SetEntries(es) ==
  /\ steps < MaxSteps
  /\ es # entries
  /\ entries' = es
  /\ selectedEntry' = IF selectedEntry \in {es[i].id : i \in 1..Len(es)}
                      THEN selectedEntry ELSE NoEntry
  /\ UNCHANGED <<groupingMode, dimensions, hasMeasured, pointerVars, hoverVars,
                 isAnimating, rafPending>>
  /\ InitialFitEffect
  /\ Render(tooltipData, Op("setEntries", "", ""))

SetGroupingMode(m) ==
  /\ steps < MaxSteps
  /\ m # groupingMode
  /\ groupingMode' = m
  /\ UNCHANGED <<entries, dimensions, hasMeasured, initialFitDone, pointerVars, hoverVars,
                 selectedEntry, viewState, targetState, isAnimating, rafPending>>
  /\ Render(tooltipData, Op("setGroupingMode", m, ""))

\* The host clears the selection (Escape, the panel's close button).
Deselect ==
  /\ steps < MaxSteps
  /\ selectedEntry # NoEntry
  /\ selectedEntry' = NoEntry
  /\ UNCHANGED <<hostVars, pointerVars, hoverVars, viewState, targetState,
                 isAnimating, rafPending>>
  /\ Render(tooltipData, Op("deselect", "", ""))

Next ==
  \/ ZoomIn
  \/ ZoomOut
  \/ Fit
  \/ \E i \in 1..Len(entries) : ScrollToEntry(entries[i].id)
  \/ AnimationFrame
  \/ \E w \in WheelInputs : Wheel(w)
  \/ MouseDown
  \/ \E d \in DragDeltas : DragMove(d)
  \/ \E pt \in HitPoints : Hover(pt)
  \/ TooltipFire
  \/ MouseUp
  \/ MouseLeave
  \/ \E pt \in HitPoints : Click(pt)
  \/ \E d \in DimSets : Resize(d)
  \/ \E es \in EntrySets : SetEntries(es)
  \/ \E m \in {"dynasty", "era"} : SetGroupingMode(m)
  \/ Deselect

Spec == Init /\ [][Next]_vars


\* ------------------------------------------------------------ layout inputs

\* The longest record list handed to the stable layout.
MaxLayoutLen == 3

\* Records that meet at the packing's edges: a label ending in 108 against
\* starts in 108, 109 and 110, a period longer than its label, a period
\* shorter than its label, a BCE period, and two groups under either mode.
L1 == Entry("l1", CE(100), NoDate, 40, "A", "X")
L2 == Entry("l2", CE(108), NoDate, 10, "A", "X")
L3 == Entry("l3", CE(109), NoDate, 40, "A", "Y")
L4 == Entry("l4", CE(110), CE(140), 40, "B", "Y")
L5 == Entry("l5", CE(100), CE(101), 60, "A", "")
L6 == Entry("l6", BCE(50), CE(105), 20, "", "X")

LayoutPool == {L1, L2, L3, L4, L5, L6}

\* Every list of up to MaxLayoutLen distinct records, in every order.
LayoutEntrySets ==
  {es \in UNION {[1..n -> LayoutPool] : n \in 0..MaxLayoutLen} :
     \A i, j \in 1..Len(es) : i # j => es[i] # es[j]}

InitLayout == \E es \in LayoutEntrySets : InitWith(es)

\* The stableLayout memo recomputed for the other grouping mode.
NextLayout == \E m \in {"dynasty", "era"} : SetGroupingMode(m)

SpecLayout == InitLayout /\ [][NextLayout]_vars
\* ------------------------------------------------------------ camera bounds

\* The handlers that write a camera snapshot.
CameraOps == {"zoomIn", "zoomOut", "wheelZoom", "wheelPanX", "wheelPanY", "dragMove",
              "click", "fit", "scrollToEntry", "frame", "resize", "setEntries"}

ScaleIn(v) == Le(minScale, v.scale) /\ Le(v.scale, I(MAX_SCALE))

\* C1: after any operation the current and the target camera scale both lie
\* in [minScale, 5].
C1_ScaleWithinBounds ==
  lastOp.name \in CameraOps => ScaleIn(viewState) /\ ScaleIn(targetState)

OffsetYIn(v) ==
  Le(minOffsetYOf(dimensions, layout.totalHeight), v.offsetY) /\ Le(v.offsetY, I(0))

\* C2: after a wheel pan, wheel zoom, drag move, badge click, fit, scrollToEntry
\* or animation frame, the current and the target offsetY are never positive
\* and never below the bottom bound min(0, viewport height - content height).
C2_OffsetYWithinBounds ==
  lastOp.name \in {"wheelPanX", "wheelPanY", "wheelZoom", "dragMove", "click", "fit",
                   "scrollToEntry", "frame"}
    => OffsetYIn(viewState) /\ OffsetYIn(targetState)

\* ------------------------------------------------------------ culling accounts

RowsOf(fr) == {<<fr.positioned[i].group, fr.positioned[i].row>> : i \in 1..Len(fr.positioned)}

RowIds(fr, rk) ==
  {fr.positioned[i].entry.id : i \in {j \in 1..Len(fr.positioned) :
                                       <<fr.positioned[j].group, fr.positioned[j].row>> = rk}}

RECURSIVE SumCounts(_)
SumCounts(badges) == IF badges = <<>> THEN 0 ELSE Head(badges).count + SumCounts(Tail(badges))

BadgeSum(fr, rk) ==
  SumCounts(SelectSeq(fr.hiddenBadges, LAMBDA b : <<b.afterPos.group, b.afterPos.row>> = rk))

\* C3: in every painted frame and every (group,row), the records of the row in
\* the visible set plus the counts of the row's badges add up to the records
\* of the row.
C3_DrawnOrCountedOnce ==
  \A rk \in RowsOf(frame) :
    Cardinality(RowIds(frame, rk) \cap frame.visibleSet) + BadgeSum(frame, rk)
      = Cardinality(RowIds(frame, rk))

\* The visible set as the culling pass alone leaves it.
culledVisible == cullRows(frame.positioned, rowKeys(frame.positioned)).visible

\* C4: whenever a record is selected, its id is in the visible set of the
\* painted frame.
C4_SelectedIsVisible == selectedEntry # NoEntry => selectedEntry \in frame.visibleSet

\* C4's case: the culling pass has put the selected record in a hidden run.
C4_SelectedInHiddenRun ==
  /\ selectedEntry # NoEntry
  /\ selectedEntry \notin culledVisible
  /\ selectedEntry \in frame.visibleSet

\* ------------------------------------------------------------ stable layout

\* The span a record occupies at LAYOUT_SCALE ends at start + label width in
\* years, or at the end year of a period when that is later.
occupiedEnd(entry) ==
  IF hasEnd(entry)
  THEN MathMax(I(getYear(entry, TRUE)),
               Add(I(getYear(entry, FALSE)), pixelsToYears(I(entry.w), LAYOUT_SCALE)))
  ELSE Add(I(getYear(entry, FALSE)), pixelsToYears(I(entry.w), LAYOUT_SCALE))

SameRow(a, b) == a.group = b.group /\ a.row = b.row

\* C5: in the stable layout any two records of one (group,row) are apart at
\* LAYOUT_SCALE: the later one starts at least 5 px, in years, after the end
\* of the span the earlier one occupies.
C5_RowsDoNotOverlap ==
  \A i, j \in 1..Len(layout.layoutEntries) :
    (i < j /\ SameRow(layout.layoutEntries[i], layout.layoutEntries[j]))
      => Ge(I(getYear(layout.layoutEntries[j].entry, FALSE)),
            Add(occupiedEnd(layout.layoutEntries[i].entry),
                pixelsToYears(I(5), LAYOUT_SCALE)))

\* C5's case: a row holds two records, and a record that would touch the
\* first one has been moved to another row of the group.
C5_RowSharedAndRowAvoided ==
  /\ \E i, j \in 1..Len(layout.layoutEntries) :
       i < j /\ SameRow(layout.layoutEntries[i], layout.layoutEntries[j])
  /\ \E i \in 1..Len(layout.layoutEntries) : layout.layoutEntries[i].row > 0

\* The (group,row) of every record, in the layout and in the projected frame.
RowAssignment ==
  {<<layout.layoutEntries[i].entry.id, layout.layoutEntries[i].group,
     layout.layoutEntries[i].row>> : i \in 1..Len(layout.layoutEntries)}
  \cup {<<frame.positioned[i].entry.id, frame.positioned[i].group, frame.positioned[i].row>>
          : i \in 1..Len(frame.positioned)}

\* C6: a step that leaves the record set and the grouping mode alone (every
\* camera operation, selection and hover change) leaves every record's
\* (group,row) alone.
C6_RowsIndependentOfCamera ==
  [][(entries' = entries /\ groupingMode' = groupingMode) => RowAssignment' = RowAssignment]_vars

\* C6's case: the rendered camera has moved and zoomed while a record sits in
\* a row below the first.
C6_CameraMovedOverRows ==
  /\ viewState.scale # InitialView.scale
  /\ viewState.offsetX # I(0)
  /\ \E i \in 1..Len(frame.positioned) : frame.positioned[i].row > 0

\* ------------------------------------------------------------ projection

ProbeYears == {I(-50), I(0), I(100), Q(2001, 2), I(640)}
ProbePixels == {I(0), I(GROUP_LABEL_WIDTH + 50), Q(801, 2), I(800)}

\* (year - minYear) * scale * 10 + offsetX + 210
projected(year, view) ==
  Add(Add(Mul(Mul(Sub(year, I(minYear)), view.scale), I(10)), view.offsetX), I(210))

Inverts(view) ==
  /\ \A y \in ProbeYears :
       /\ xToYear(yearToX(y, view, minYear), view, minYear) = y
       /\ yearToX(y, view, minYear) = projected(y, view)
  /\ \A x \in ProbePixels : yearToX(xToYear(x, view, minYear), view, minYear) = x

InsidePlot(x) == Le(I(GROUP_LABEL_WIDTH + 50), x) /\ Le(x, I(dimensions.width))

SpanInside ==
  /\ InsidePlot(yearToX(I(minYear), targetState, minYear))
  /\ InsidePlot(yearToX(I(maxYear), targetState, minYear))

ZoomInThenOut == lastOp.name = "zoomOut" /\ lastOp.out.name = "zoomIn"

\* C9 (as stated): zoomIn() then zoomOut() leaves the camera target where it
\* was before the two calls.
C9_ZoomInOutRestores == ZoomInThenOut => targetState = lastOp.out.arg

\* The scale survives the two clamps: at least minScale, and 1.3 times it at most 5.
ZoomStepFits(t) == Le(minScale, t.scale) /\ Le(Mul(t.scale, ZOOM_STEP), I(MAX_SCALE))

\* C9 (amended): zoomIn() then zoomOut() leaves the target offsets where they
\* were, and the target scale where it was exactly when that scale is at
\* least minScale and 1.3 times it is at most 5.
C9_ZoomInOutRestoresUnclamped ==
  ZoomInThenOut =>
    /\ targetState.offsetX = lastOp.out.arg.offsetX
    /\ targetState.offsetY = lastOp.out.arg.offsetY
    /\ (targetState.scale = lastOp.out.arg.scale) <=> ZoomStepFits(lastOp.out.arg)

\* C9's case: the two calls ran from a target off the initial one and brought
\* it back.
C9_RoundTripDone ==
  /\ ZoomInThenOut
  /\ lastOp.out.arg # InitialView
  /\ targetState = lastOp.out.arg

\* ------------------------------------------------------------ wheel zoom

\* C10: after a wheel zoom at pointer x = mouseX, the year that the rendered
\* camera had under the pointer maps to mouseX under the new target camera,
\* clamped scale or not.
C10_WheelZoomKeepsPointerYear ==
  lastOp.name = "wheelZoom" =>
    yearToX(xToYear(I(lastOp.arg.mouseX), viewState, minYear), targetState, minYear)
      = I(lastOp.arg.mouseX)

\* C10's case: a wheel zoom whose new scale was clamped at minScale.
C10_WheelZoomClamped ==
  /\ lastOp.name = "wheelZoom"
  /\ targetState.scale = minScale
  /\ viewState.scale # minScale
  /\ viewState.offsetX # I(0)

\* ------------------------------------------------------------ culling inputs

\* Records offered to the culling pass as one row: 40 px point labels at
\* 100, 105, 110 and 900, a period from 120 to 300 and a 240 px point label at
\* 50 (48 years wide at LAYOUT_SCALE, so the stable layout can put 100 after it).
R1 == Entry("r1", CE(100), NoDate, 40, "A", "X")
R2 == Entry("r2", CE(105), NoDate, 40, "A", "X")
R3 == Entry("r3", CE(110), NoDate, 40, "A", "X")
R4 == Entry("r4", CE(120), CE(300), 40, "A", "X")
R5 == Entry("r5", CE(900), NoDate, 40, "A", "X")
R0 == Entry("r0", CE(50), NoDate, 240, "A", "X")
RowPool == <<R0, R1, R2, R3, R4, R5>>

\* The records of RowPool picked by an index set, in year order.
RECURSIVE pickRow(_, _)
pickRow(S, n) ==
  IF n = 0 THEN <<>>
  ELSE IF n \in S THEN Append(pickRow(S, n - 1), RowPool[n]) ELSE pickRow(S, n - 1)

RowSets == {pickRow(S, Len(RowPool)) : S \in (SUBSET (1..Len(RowPool))) \ {{}}}

\* Camera scales the row is drawn at, from minScale's cap up to the maximum.
RowScales == {Q(1, 20), Q(9, 100), Q(1, 10), Q(3, 10), Q(1, 2), I(1), I(MAX_SCALE)}

\* A layout that holds the given records in row 0 of one group.
rowLayout(es) ==
  layoutOf([i \in 1..Len(es) |-> [entry |-> es[i], row |-> 0, group |-> "A"]],
           groupPositions(<<[key |-> "A", entries |-> es, rowCount |-> 1]>>))

\* Container sizes the row is drawn in: the two of DimSets and a wide screen.
RowDims == { [width |-> 800, height |-> 600], [width |-> 476, height |-> 600],
             [width |-> 2600, height |-> 600] }

InitCull ==
  /\ entries \in RowSets
  /\ groupingMode = "dynasty"
  /\ selectedEntry = NoEntry
  /\ dimensions \in RowDims
  /\ viewState = InitialView
  /\ targetState = InitialView
  /\ isAnimating = FALSE
  /\ rafPending = 0
  /\ isDragging = FALSE
  /\ dragStart = [x |-> 0, y |-> 0, offsetX |-> I(0), offsetY |-> I(0)]
  /\ hasDragged = FALSE
  /\ downView = InitialView
  /\ pointer = "idle"
  /\ hoveredEvent = NoEntry
  /\ tooltipTimer = NoEntry
  /\ tooltipData = NoEntry
  /\ hasMeasured = FALSE
  /\ initialFitDone = FALSE
  /\ layout = rowLayout(entries)
  /\ frame = Draw(entries, layout, viewState, dimensions, selectedEntry)
  /\ lastOp = Op("mount", "", "")
  /\ steps = 0
  /\ sw = swInstalled

\* The draw effect run over the row with the camera at scale s.
DrawRowAt(s) ==
  /\ steps < MaxSteps
  /\ s # viewState.scale
  /\ viewState' = View(I(0), I(0), s)
  /\ targetState' = viewState'
  /\ frame' = Draw(entries, layout, viewState', dimensions, selectedEntry)
  /\ lastOp' = Op("draw", s, "")
  /\ steps' = steps + 1
  /\ UNCHANGED <<hostVars, pointerVars, hoverVars, selectedEntry, isAnimating, rafPending,
                 tooltipData, layout, sw>>

\* handleClick on the i-th badge of the frame: its zoom-to-fit becomes the
\* target; lastOp keeps the badge's hit rectangle.
ClickBadgeAt(i) ==
  /\ steps < MaxSteps
  /\ setTargetState(badgeTarget(frame.badgeHitRects[i], targetState, dimensions, minYear))
  /\ lastOp' = Op("badgeClick", frame.badgeHitRects[i], "")
  /\ steps' = steps + 1
  /\ UNCHANGED <<hostVars, pointerVars, hoverVars, selectedEntry, viewState, tooltipData,
                 layout, frame, sw>>

NextCull ==
  \/ \E s \in RowScales : DrawRowAt(s)
  \/ \E i \in 1..Len(frame.badgeHitRects) : ClickBadgeAt(i)

SpecCull == InitCull /\ [][NextCull]_vars

\* ------------------------------------------------------------ badges of a row

\* The row of Scenario A, drawn at a scale of at least 0.05 where 5 years
\* span less than 5 px.
ScenarioA ==
  /\ entries = <<R1, R2, R5>>
  /\ Ge(viewState.scale, MIN_SCALE_CAP)
  /\ Lt(Mul(I(5), Mul(viewState.scale, I(10))), I(5))

BadgeRanges(fr) ==
  [i \in 1..Len(fr.hiddenBadges) |->
     <<fr.hiddenBadges[i].count, fr.hiddenBadges[i].yearMin, fr.hiddenBadges[i].yearMax>>]

padOf(b) == MathMax(Mul(I(b.maxYear - b.minYear), Q(15, 100)), I(20))

PaddedMin(b) == Sub(I(b.minYear), padOf(b))
PaddedMax(b) == Add(I(b.maxYear), padOf(b))

\* The padded span starts at the left edge of the plot area ...
AtLeftEdge(b) == yearToX(PaddedMin(b), targetState, minYear) = I(GROUP_LABEL_WIDTH)

\* ... and ends where the available width ends, the rightmost label's width
\* before the right edge of the container.
AtRightEdge(b) ==
  yearToX(PaddedMax(b), targetState, minYear) = I(dimensions.width - b.rightmostLabelWidth)

\* The scale at which the padded span is as wide as the available width.
exactFitScale(b) ==
  Div(I(dimensions.width - GROUP_LABEL_WIDTH - b.rightmostLabelWidth),
      Mul(Sub(PaddedMax(b), PaddedMin(b)), I(10)))

FitsUnclamped(b) == Le(MIN_SCALE_CAP, exactFitScale(b)) /\ Le(exactFitScale(b), I(MAX_SCALE))

\* C12 (as stated): after a click on a badge, yearMin - pad projects to the
\* left edge of the plot area and yearMax + pad to the right edge of the
\* available width, for every badge range.
C12_BadgeClickFillsWidth ==
  lastOp.name = "badgeClick" => AtLeftEdge(lastOp.arg) /\ AtRightEdge(lastOp.arg)

\* C12 (amended): after a click on a badge, yearMin - pad projects to the left
\* edge of the plot area, and yearMax + pad projects to the right edge of the
\* available width exactly when the fitting scale lies in [0.05, 5], the
\* range the new scale is clamped to.
C12_BadgeClickFillsWidthUnclamped ==
  lastOp.name = "badgeClick" =>
    /\ AtLeftEdge(lastOp.arg)
    /\ AtRightEdge(lastOp.arg) <=> FitsUnclamped(lastOp.arg)

\* C12's case: a clicked badge over a range of years whose padded span fills
\* the available width.
C12_BadgeSpanFitted ==
  /\ lastOp.name = "badgeClick"
  /\ lastOp.arg.maxYear > lastOp.arg.minYear
  /\ AtLeftEdge(lastOp.arg) /\ AtRightEdge(lastOp.arg)
  /\ targetState.scale # viewState.scale


\* ------------------------------------------------------------ pointer gestures

\* The number of handler runs of one gesture behaviour: a camera change, a
\* pointer-down, a captured move, a pointer-up and the click take five.
MaxPointerSteps == 5

\* The wheel events tried around a gesture: a horizontal pan, a zoom in, and a
\* pan of 120 px that brings the first badge of the row under the label column.
PointerWheel ==
  { WheelEvent(40, 8, FALSE, FALSE, 400), WheelEvent(0, -20, TRUE, FALSE, 400),
    WheelEvent(160, 8, FALSE, FALSE, 400) }

InitPointer == Mounted(<<E1, E2, E3, E4, E5, E6>>) /\ steps = MaxSteps - MaxPointerSteps

NextPointer ==
  \/ \E w \in PointerWheel : Wheel(w)
  \/ AnimationFrame
  \/ MouseDown
  \/ \E d \in DragDeltas : DragMove(d)
  \/ MouseUp
  \/ MouseLeave
  \/ \E pt \in HitPoints : Click(pt)
  \/ \E pt \in HitPoints : Hover(pt)

SpecPointer == InitPointer /\ [][NextPointer]_vars

\* C13: after a captured pointer-move with raw delta (dx, dy) the rendered
\* offset is the offset rendered at pointer-down plus (dx, dy), the vertical
\* component clamped, and the rendered scale is the one rendered before the move.
DraggedFrom(origin) ==
  /\ viewState.offsetX = Add(origin.offsetX, I(lastOp.arg.dx))
  /\ viewState.offsetY = clampOffsetY(Add(origin.offsetY, I(lastOp.arg.dy)), dimensions,
                                      frame.totalHeight)
  /\ viewState.scale = lastOp.out.scale

C13_DragFollowsRendered == lastOp.name = "dragMove" => DraggedFrom(downView)

\* C14: the dragged flag is cleared by every pointer-down, raised by a captured
\* move of more than 5 px in either axis and touched by nothing else; a click
\* with the flag raised changes neither the selection nor the camera target,
\* and a click with the flag down is handled as a click.
DraggedFlagStep ==
  /\ lastOp'.name = "mouseDown" => ~hasDragged'
  /\ lastOp'.name = "dragMove" =>
       hasDragged' = (hasDragged \/ AbsI(lastOp'.arg.dx) > 5 \/ AbsI(lastOp'.arg.dy) > 5)
  /\ lastOp'.name \notin {"mouseDown", "dragMove"} => hasDragged' = hasDragged

ClickStep ==
  lastOp'.name = "click" =>
    IF hasDragged
    THEN lastOp'.out = "dragged" /\ selectedEntry' = selectedEntry /\ targetState' = targetState
    ELSE lastOp'.out \in {"outside", "badge", "select", "deselect"}

C14_DragSuppressesClick == [][DraggedFlagStep /\ ClickStep]_vars

\* A click that ended a drag over a record.
C14_ClickAfterDrag ==
  /\ lastOp.name = "click" /\ lastOp.out = "dragged"
  /\ recordsAt(frame, viewState, lastOp.arg) # <<>> /\ inPlot(lastOp.arg)

\* What a click at pt did, step by step: the badge's zoom-to-fit and no
\* notification, or the record handed to onSelectEntry, or onSelectEntry(null).
ZoomedToBadge(pt) ==
  /\ lastOp'.out = "badge"
  /\ targetState' = badgeTarget(badgesAt(frame, pt)[1], targetState, dimensions, minYear)
  /\ isAnimating'
  /\ selectedEntry' = selectedEntry

SelectedRecord(pt) ==
  /\ lastOp'.out = "select"
  /\ selectedEntry' = recordsAt(frame, viewState, pt)[1].entry.id
  /\ targetState' = targetState

SelectedNull ==
  lastOp'.out = "deselect" /\ selectedEntry' = NoEntry /\ targetState' = targetState

NoOutcome ==
  lastOp'.out = "outside" /\ selectedEntry' = selectedEntry /\ targetState' = targetState

ClickOutcomeAt(pt) ==
  IF badgesAt(frame, pt) # <<>> THEN ZoomedToBadge(pt)
  ELSE IF recordsAt(frame, viewState, pt) # <<>> THEN SelectedRecord(pt)
  ELSE SelectedNull

NonDragClick == lastOp'.name = "click" /\ ~hasDragged

OnPlot(pt) == Ge(pt.x, I(GROUP_LABEL_WIDTH)) /\ Ge(pt.y, I(AXIS_HEIGHT))

\* C15 as stated: every non-drag click zooms to the badge under it, else
\* selects the record under it, else notifies selection-changed(null).
C15_ClickHasOneOutcome == [][NonDragClick => ClickOutcomeAt(lastOp'.arg)]_vars

\* C15: a non-drag click at or right of the label column's edge and at or
\* below the axis strip zooms to the badge under it, else selects the record
\* under it, else notifies selection-changed(null); a click in the label
\* column or in the axis strip does nothing.
C15_PlotClickHasOneOutcome ==
  [][NonDragClick => IF OnPlot(lastOp'.arg) THEN ClickOutcomeAt(lastOp'.arg) ELSE NoOutcome]_vars

\* A click on a badge that lies over a hidden record.
C15_BadgeClicked ==
  /\ lastOp.name = "click" /\ lastOp.out = "badge"
  /\ recordsAt(frame, viewState, lastOp.arg) # <<>>


\* C16: scrollToEntry leaves the target scale alone unless a same-row
\* neighbour collides with the record at the current target scale (the scale
\* that clears the neighbours is above it), and then it does not lower it.
ScrollKeepsOrRaises(needed, prior) ==
  IF Gt(needed, prior.scale) THEN Ge(targetState.scale, prior.scale)
  ELSE targetState.scale = prior.scale

C16_ScrollOnlyRaisesZoom ==
  lastOp.name = "scrollToEntry" =>
    ScrollKeepsOrRaises(neededScaleOf(frame.positioned,
                                      findPos(frame.positioned, lastOp.arg)[1]), lastOp.out)

\* ------------------------------------------------------------ settling

\* The frames left to an animation once the inputs have stopped, and the
\* handler runs of one settling behaviour.
SettleFrames == 10
MaxSettleSteps == 13

\* Slow wheel pans, 1.5 px each way: three of them in flight are 4.5 px from
\* the target, which eight frames at LERP_FACTOR bring under the 0.5 px
\* threshold; the callbacks still requested at the snap run after it.
SettleWheel ==
  { WheelEvent(2, 0, FALSE, FALSE, 400), WheelEvent(-2, 0, FALSE, FALSE, 400),
    WheelEvent(0, 2, FALSE, FALSE, 400), WheelEvent(0, -2, FALSE, FALSE, 400) }

InitSettle == Mounted(<<E1, E2, E3, E4, E5, E6>>) /\ steps = MaxSteps - MaxSettleSteps

\* Inputs arrive only while the frames left after them are enough to settle.
InputsOpen == steps < MaxSteps - SettleFrames

NextSettle ==
  \/ InputsOpen /\ \E w \in SettleWheel : Wheel(w)
  \/ InputsOpen /\ \E d \in DimSets : Resize(d)
  \/ AnimationFrame

\* An AnimationFrame step, told by what it leaves in steps and lastOp: it is
\* possible exactly when AnimationFrame is, and no other step of NextSettle is one.
FrameRan ==
  /\ steps < MaxSteps
  /\ rafPending > 0
  /\ steps' = steps + 1
  /\ lastOp' = Op("frame", "", "")

\* The browser runs every frame callback that stays requested.
SpecSettle == InitSettle /\ [][NextSettle]_vars /\ WF_<<steps, lastOp>>(FrameRan)

Settled == ~isAnimating /\ rafPending = 0 /\ viewState = targetState

\* C17: once the inputs have stopped, an animation started by a target
\* mutation reaches the settled phase after finitely many frames (the
\* rendered camera equal to the target, no frame callback requested) and
\* stays there.
C17_AnimationSettles == (isAnimating ~> Settled) /\ <>[]Settled

\* A frame snapped the camera to a panned target and requested no other frame.
C17_SettledAfterFrames ==
  /\ Settled /\ lastOp.name = "frame"
  /\ viewState.offsetX # I(0) /\ viewState.offsetY # I(0)

\* C18: whenever no animation is running and no frame callback is pending,
\* the rendered camera equals the target camera.
C18_IdleMeansAtTarget == (~isAnimating /\ rafPending = 0) => viewState = targetState

\* C19: right after a pointer-down the animation is cancelled, the target
\* offset is the rendered offset, and the recorded drag origin is that offset.
SameOffset(a, b) == a.offsetX = b.offsetX /\ a.offsetY = b.offsetY

C19_PointerDownSnapsTarget ==
  lastOp.name = "mouseDown" =>
    /\ ~isAnimating /\ rafPending = 0
    /\ SameOffset(targetState, viewState)
    /\ SameOffset(dragStart, viewState)

\* C20: a tooltip is never revealed right after an event that cancels a
\* pending reveal: a camera change, a pointer-leave, or a pointer movement
\* that starts no new timer.
CameraChanges ==
  {"wheelZoom", "wheelPanX", "wheelPanY", "frame", "zoomIn", "zoomOut", "fit", "scrollToEntry"}

CancelsReveal(op) ==
  \/ op.name \in CameraChanges \cup {"mouseLeave", "dragMove"}
  \/ op.name = "hover" /\ op.out # "record"

C20_PendingTooltipCancelled == lastOp.name = "tooltip" => ~CancelsReveal(lastOp.out)

\* ------------------------------------------------------------ zoom floor

\* The width the full ordering-year span takes at minScale, and the width the
\* container leaves for it (the label column and 50 px each side taken off).
SpanAtMinScale == Mul(I(maxYear - minYear), Mul(minScale, I(10)))
AvailableWidth == I(dimensions.width - GROUP_LABEL_WIDTH - 100)

RECURSIVE clearOfLastVisible(_, _, _)
clearOfLastVisible(events, i, lastVisibleIdx) ==
  IF i > Len(events) THEN {}
  ELSE IF Ge(events[i].x, Add(Add(events[lastVisibleIdx].x, events[lastVisibleIdx].width),
                              I(OVERLAP_GAP)))
       THEN {events[i].entry.id} \cup clearOfLastVisible(events, i + 1, i)
       ELSE clearOfLastVisible(events, i + 1, lastVisibleIdx)

statedVisible(events) ==
  IF events = <<>> THEN {} ELSE {events[1].entry.id} \cup clearOfLastVisible(events, 2, 1)

\* Two projected records whose pixel extents meet.
Overlap(a, b) == Lt(a.x, Add(b.x, b.width)) /\ Lt(b.x, Add(a.x, a.width))

VisibleApart(fr) ==
  \A i, j \in 1..Len(fr.positioned) :
    (i < j /\ fr.positioned[i].entry.id \in fr.visibleSet
           /\ fr.positioned[j].entry.id \in fr.visibleSet)
      => ~Overlap(fr.positioned[i], fr.positioned[j])

\* C22: in a drawn row the visible records are the first one and every record
\* that clears the previous visible record by OVERLAP_GAP, and no two visible
\* records of the row overlap.
C22_VisibleClearsPreviousVisible ==
  frame.visibleSet = statedVisible(frame.positioned) /\ VisibleApart(frame)

\* ------------------------------------------------------------ badge ranges

\* The place of a projected record in the drawn row.
rowIndex(fr, pos) == CHOOSE i \in 1..Len(fr.positioned) : fr.positioned[i] = pos

endElseStart(entry) == IF hasEnd(entry) THEN getYear(entry, TRUE) ELSE getYear(entry, FALSE)

closedRun(b) == b.afterPos # b.beforePos

ClosesAtBoundary(b) == closedRun(b) => b.yearMax = endElseStart(b.beforePos.entry)

\* C23 as stated: a badge's yearMin is the ordering year of the first hidden
\* record of its run, and a closed run's yearMax is the closing record's end
\* year, or its start year when it has no end.
C23_BadgeSpansHiddenRun ==
  \A i \in 1..Len(frame.hiddenBadges) :
    /\ frame.hiddenBadges[i].yearMin =
         getYear(frame.positioned[rowIndex(frame, frame.hiddenBadges[i].afterPos) + 1].entry,
                 FALSE)
    /\ ClosesAtBoundary(frame.hiddenBadges[i])

\* C23: a badge's yearMin is the ordering year of the visible record that
\* precedes its run; a closed run's yearMax is the closing record's end year,
\* or its start year when it has no end; a trailing run's yearMax is that of
\* the last record of the row.
C23_BadgeSpansFromLastVisible ==
  \A i \in 1..Len(frame.hiddenBadges) :
    /\ frame.hiddenBadges[i].afterPos.entry.id \in frame.visibleSet
    /\ frame.hiddenBadges[i].yearMin = getYear(frame.hiddenBadges[i].afterPos.entry, FALSE)
    /\ ClosesAtBoundary(frame.hiddenBadges[i])
    /\ ~closedRun(frame.hiddenBadges[i]) =>
         frame.hiddenBadges[i].yearMax = endElseStart(Last(frame.positioned).entry)

\* A drawn row with a run closed by the period and a row with a trailing run.
C23_RunClosedByPeriod ==
  /\ lastOp.name = "draw"
  /\ \E i \in 1..Len(frame.hiddenBadges) :
       closedRun(frame.hiddenBadges[i]) /\ frame.hiddenBadges[i].beforePos.entry = R4

\* ------------------------------------------------------------ layout order

\* The place of a record in the list the host passed.
inputIndex(e) == CHOOSE i \in 1..Len(entries) : entries[i] = e

bandMinYear(g) == SeqMin(startYears(g.entries))

BandsAscending ==
  \A i, j \in 1..Len(layout.groups) :
    i < j => bandMinYear(layout.groups[i]) <= bandMinYear(layout.groups[j])

\* Ascending ordering year, equal years in input order.
InYearThenInputOrder(es) ==
  \A i, j \in 1..Len(es) :
    i < j => \/ getYear(es[i], FALSE) < getYear(es[j], FALSE)
             \/ /\ getYear(es[i], FALSE) = getYear(es[j], FALSE)
                /\ inputIndex(es[i]) < inputIndex(es[j])

\* Each band holds the records of its key, each once.
BandHoldsItsGroup(g) ==
  /\ Range(g.entries) = {entries[i] : i \in {k \in 1..Len(entries) :
                                                getGroupKey(entries[k], groupingMode) = g.key}}
  /\ Cardinality(Range(g.entries)) = Len(g.entries)

\* C24: the bands of the stable layout are in ascending order of the minimum
\* ordering year of their records, and each band lists its records by
\* ascending ordering year, records of one year in their input order.
C24_BandsAndRecordsOrdered ==
  /\ BandsAscending
  /\ \A i \in 1..Len(layout.groups) :
       BandHoldsItsGroup(layout.groups[i]) /\ InYearThenInputOrder(layout.groups[i].entries)

\* A regrouped layout of two bands, one with two records of the same year
\* that the host passed in the order opposite to the pool's.
C24_TieInABand ==
  /\ lastOp.name = "setGroupingMode"
  /\ Len(layout.groups) = 2
  /\ \E i \in 1..Len(layout.groups) : layout.groups[i].entries = <<L5, L1>>

\* ------------------------------------------------------------ first fit

\* The records placed before the k-th one in row r of its group, and the
\* cursor they left there: the end of the latest one's span plus the gap.
placedBefore(k, r) ==
  {i \in 1..(k - 1) : /\ layout.layoutEntries[i].group = layout.layoutEntries[k].group
                      /\ layout.layoutEntries[i].row = r}

latest(S) == CHOOSE i \in S : \A j \in S : j <= i

rowCursor(k, r) ==
  Add(occupiedEnd(layout.layoutEntries[latest(placedBefore(k, r))].entry),
      pixelsToYears(I(5), LAYOUT_SCALE))

\* Row r is open when the k-th record is placed and its cursor is at most start - gap.
rowTakes(k, r) ==
  /\ placedBefore(k, r) # {}
  /\ Le(rowCursor(k, r), Sub(I(getYear(layout.layoutEntries[k].entry, FALSE)),
                              pixelsToYears(I(5), LAYOUT_SCALE)))

FirstFit(k) ==
  /\ \A r \in 0..(layout.layoutEntries[k].row - 1) : placedBefore(k, r) # {} /\ ~rowTakes(k, r)
  /\ \/ rowTakes(k, layout.layoutEntries[k].row)
     \/ /\ placedBefore(k, layout.layoutEntries[k].row) = {}
        /\ \A r \in 0..Len(layout.layoutEntries) : ~rowTakes(k, r)

rowsOfBand(g) ==
  {layout.layoutEntries[i].row : i \in {k \in 1..Len(layout.layoutEntries) :
                                          layout.layoutEntries[k].group = g.key}}

\* C25: every record sits in the lowest row whose cursor, left by the records
\* placed before it, is at most its start minus the gap, or in a new row when
\* no open row takes it; the rows of a band are 0..rowCount-1, none empty.
C25_RowPackingIsFirstFit ==
  /\ \A k \in 1..Len(layout.layoutEntries) : FirstFit(k)
  /\ \A i \in 1..Len(layout.groups) :
       rowsOfBand(layout.groups[i]) = 0..((layout.groups[i].height \div ROW_HEIGHT) - 1)

\* A record went back to row 0 after row 1 had been opened.
C25_RowReused ==
  /\ lastOp.name = "setGroupingMode"
  /\ \E k \in 1..Len(layout.layoutEntries) :
       layout.layoutEntries[k].row = 0 /\ placedBefore(k, 1) # {}

\* ------------------------------------------------------------ bands

RECURSIVE bandHeights(_)
bandHeights(groups) ==
  IF groups = <<>> THEN 0 ELSE Head(groups).height + bandHeights(Tail(groups))

bandStart(i) ==
  IF i = 1 THEN AXIS_HEIGHT ELSE layout.groups[i - 1].y + layout.groups[i - 1].height

\* C26: the first band starts at AXIS_HEIGHT, every band is as high as its
\* rows (at least one) times ROW_HEIGHT and starts where the band before it
\* ends, and totalHeight is AXIS_HEIGHT plus the heights of the bands.
C26_BandsTileTheAxis ==
  /\ \A i \in 1..Len(layout.groups) :
       /\ layout.groups[i].y = bandStart(i)
       /\ layout.groups[i].height = Cardinality(rowsOfBand(layout.groups[i])) * ROW_HEIGHT
       /\ layout.groups[i].height >= ROW_HEIGHT
  /\ layout.totalHeight = AXIS_HEIGHT + bandHeights(layout.groups)

\* Two bands, the upper one two rows high.
C26_BandBelowTwoRows ==
  /\ lastOp.name = "setGroupingMode"
  /\ Len(layout.groups) = 2
  /\ layout.groups[1].height = 2 * ROW_HEIGHT

\* ------------------------------------------------------------ one frame

\* A camera component moved a quarter of the way to its target.
quarterStep(c, t) == Add(c, Mul(Sub(t, c), Q(1, 4)))

quarterView(v, t) ==
  View(quarterStep(v.offsetX, t.offsetX), quarterStep(v.offsetY, t.offsetY),
       quarterStep(v.scale, t.scale))

underThresholds(v, t) ==
  /\ Lt(MathAbs(Sub(t.offsetX, v.offsetX)), Q(1, 2))
  /\ Lt(MathAbs(Sub(t.offsetY, v.offsetY)), Q(1, 2))
  /\ Lt(MathAbs(Sub(t.scale, v.scale)), Q(1, 10000))

\* The component went from c to d on the way to t: no further from t, not past it.
Approaches(c, d, t) ==
  /\ Le(MathAbs(Sub(t, d)), MathAbs(Sub(t, c)))
  /\ Le(c, t) => Le(d, t)
  /\ Ge(c, t) => Ge(d, t)

FrameMoves(stepped) ==
  IF underThresholds(stepped, targetState)
  THEN viewState' = targetState /\ ~isAnimating' /\ rafPending' \in {rafPending - 1, rafPending}
  ELSE viewState' = stepped /\ isAnimating' /\ rafPending' = rafPending

FrameStep ==
  lastOp'.name = "frame" =>
    /\ FrameMoves(quarterView(viewState, targetState))
    /\ targetState' = targetState
    /\ Approaches(viewState.offsetX, viewState'.offsetX, targetState.offsetX)
    /\ Approaches(viewState.offsetY, viewState'.offsetY, targetState.offsetY)
    /\ Approaches(viewState.scale, viewState'.scale, targetState.scale)

\* C27: a frame moves every camera component a quarter of the way to its
\* target; when the result is within 0.5 px in both offsets and 0.0001 in
\* scale the camera is set to the target and the animation stops, otherwise
\* it goes on; no component passes its target or gets further from it.
C27_FrameIsQuarterStepOrSnap == [][FrameStep]_vars

\* A frame that snapped the camera to the target of two pans, 3 px away.
C27_FrameSnapped ==
  /\ lastOp.name = "frame" /\ ~isAnimating /\ rafPending = 0
  /\ viewState = targetState /\ viewState.offsetX = I(-3)

\* ------------------------------------------------------------ drag

\* C28: a captured pointer-move leaves the rendered camera and the target
\* camera identical, and a frame that runs right after it does not move the
\* rendered camera.
DragStep ==
  /\ lastOp'.name = "dragMove" => viewState' = targetState'
  /\ (lastOp.name = "dragMove" /\ lastOp'.name = "frame") => viewState' = viewState

C28_DragWritesBothCameras == [][DragStep]_vars

\* A frame ran during a drag that had moved the camera 50 px, and left it there.
C28_FrameDuringDrag ==
  /\ lastOp.name = "frame" /\ isDragging /\ hasDragged
  /\ viewState = targetState
  /\ viewState.offsetX = Add(dragStart.offsetX, I(50))

\* ------------------------------------------------------------ hit priority

OnBadge(pt) == badgesAt(frame, pt) # <<>>

\* The hover took the badge: no record hovered, no reveal pending.
HoverHitBadge ==
  lastOp'.out = "badge" /\ hoveredEvent' = NoEntry /\ tooltipTimer' = NoEntry

\* Nothing was hit: no record hovered, selection and target as they were.
HoverHitNothing == lastOp'.out = "outside" /\ hoveredEvent' = NoEntry

BadgeHitStep(everywhere) ==
  /\ (lastOp'.name = "hover" /\ OnBadge(lastOp'.arg)) =>
       IF everywhere \/ OnPlot(lastOp'.arg) THEN HoverHitBadge ELSE HoverHitNothing
  /\ (NonDragClick /\ OnBadge(lastOp'.arg)) =>
       IF everywhere \/ OnPlot(lastOp'.arg) THEN ZoomedToBadge(lastOp'.arg) ELSE NoOutcome

\* C29 as stated: for hover and for click, a pointer inside a badge rectangle
\* of the last painted frame hits the badge, and no record is hovered or selected.
C29_BadgeHitFirst == [][BadgeHitStep(TRUE)]_vars

\* C29: for hover and for click, a pointer inside a badge rectangle of the
\* last painted frame and inside the plot area hits the badge, and no record
\* is hovered or selected; inside a badge rectangle but under the label column
\* or the axis strip it hits nothing, and no record is hovered or selected.
C29_BadgeHitFirstOnPlot == [][BadgeHitStep(FALSE)]_vars

\* The pointer stopped over a badge that lies over a hidden record.
C29_HoverOnBadgeOverRecord ==
  /\ lastOp.name = "hover" /\ lastOp.out = "badge"
  /\ recordsAt(frame, viewState, lastOp.arg) # <<>>
  /\ hoveredEvent = NoEntry

\* ------------------------------------------------------------ C30

\* The painted records that contain the point, lowest first.
paintedAt(pt) ==
  SelectSeq(paintOrder(frame, viewState, dimensions, selectedEntry),
            LAMBDA pos : inRect(pt, pos.x, Add(I(pos.y), viewState.offsetY),
                                pos.width, I(pos.height)))

\* The record whose rectangle was painted last over the point.
topmostAt(pt) == IF paintedAt(pt) # <<>> THEN Last(paintedAt(pt)).entry.id ELSE NoEntry

Stacked(pt) == Len(recordsAt(frame, viewState, pt)) > 1

HoverHitRecord == lastOp'.name = "hover" /\ lastOp'.out = "record"

ClickHitRecord == lastOp'.name = "click" /\ lastOp'.out = "select"

HitTopmostStep ==
  /\ (HoverHitRecord /\ Stacked(lastOp'.arg)) => hoveredEvent' = topmostAt(lastOp'.arg)
  /\ (ClickHitRecord /\ Stacked(lastOp'.arg)) => selectedEntry' = topmostAt(lastOp'.arg)

\* C30: when several projected records contain the pointer, the record the
\* hover or click hit-test returns is the one the renderer painted topmost at
\* that point (later-starting records first, earlier ones over them, the
\* selected record last of all).
C30_HitIsTopmostPainted == [][HitTopmostStep]_vars

\* ------------------------------------------------------------ C31

\* The wheel event the last handler was given.
WheelStep == lastOp'.name \in {"wheelPanX", "wheelPanY", "wheelZoom"}

HorizontalWheel(w) == w.shift \/ AbsI(w.deltaX) > AbsI(w.deltaY)

\* The lowest vertical offset: min(0, viewport - content).
lowestOffsetY == MathMin(I(0), I(dimensions.height - AXIS_HEIGHT - frame.totalHeight))

pannedY(w) == Sub(targetState.offsetY, Mul(I(w.deltaY), SCROLL_SPEED))

clampedY(w) ==
  IF Gt(pannedY(w), I(0)) THEN I(0)
  ELSE IF Lt(pannedY(w), lowestOffsetY) THEN lowestOffsetY ELSE pannedY(w)

PansX(w) ==
  /\ targetState'.offsetX = Sub(targetState.offsetX, Mul(I(w.deltaX), SCROLL_SPEED))
  /\ targetState'.offsetY = targetState.offsetY
  /\ targetState'.scale = targetState.scale

PansY(w) ==
  /\ targetState'.offsetY = clampedY(w)
  /\ Le(lowestOffsetY, targetState'.offsetY) /\ Le(targetState'.offsetY, I(0))
  /\ targetState'.offsetX = targetState.offsetX
  /\ targetState'.scale = targetState.scale

ZoomsWithoutPanY == targetState'.offsetY = viewState.offsetY /\ viewState' = viewState

WheelAxisStep ==
  WheelStep =>
    IF lastOp'.arg.zoom THEN ZoomsWithoutPanY
    ELSE IF HorizontalWheel(lastOp'.arg) THEN PansX(lastOp'.arg) ELSE PansY(lastOp'.arg)

\* C31: a wheel event without the zoom modifier leaves the target scale alone
\* and moves one target offset only: offsetX (unclamped) when shift is held or
\* |deltaX| > |deltaY|, else offsetY clamped to [min(0, viewport - content), 0];
\* a wheel event with ctrl/meta is a zoom whose target keeps the rendered
\* vertical offset, so it starts no vertical movement.
C31_WheelMovesOneAxis == [][WheelAxisStep]_vars

\* A vertical wheel pan moved the target down a content taller than the viewport.
C31_VerticalPanMoved ==
  /\ lastOp.name = "wheelPanY"
  /\ Lt(targetState.offsetY, I(0))
  /\ targetState.offsetX = I(0)

\* ------------------------------------------------------------ C32

\* The steps of one year-range behaviour: a measurement or a new list, then fit
\* or zoomOut, then a frame.
MaxRangeSteps == 3

\* Two point records of one year.
Y1 == Entry("y1", CE(500), NoDate, 40, "A", "X")
Y2 == Entry("y2", CE(500), NoDate, 60, "A", "X")

\* Record lists by year range: general, a period, a single record, one year
\* twice, none.
RangeSets == { <<E1, E2, E5>>, <<E5>>, <<E4>>, <<Y1, Y2>>, <<>> }

\* Container widths around the fixed margins GROUP_LABEL_WIDTH + 100 = 260.
RangeDims == { [width |-> 800, height |-> 600], [width |-> 260, height |-> 600],
               [width |-> 200, height |-> 600] }

InitRange == \E es \in RangeSets : Mounted(es) /\ steps = MaxSteps - MaxRangeSteps

NextRange ==
  \/ \E d \in RangeDims : Resize(d)
  \/ \E es \in RangeSets : SetEntries(es)
  \/ Fit
  \/ ZoomOut
  \/ AnimationFrame

SpecRange == InitRange /\ [][NextRange]_vars

FiniteView(v) == IsFinite(v.offsetX) /\ IsFinite(v.offsetY) /\ IsFinite(v.scale)

\* C32: the year range of an empty record set is [0, 100]; for every record
\* set minScale and the fit scale are finite, and so is every camera target
\* left by fit(), zoomOut() and the initial fit.
C32_ScalesFinite ==
  /\ (entries = <<>>) => (minYear = 0 /\ maxYear = 100)
  /\ IsFinite(minScale)
  /\ IsFinite(fitScaleOf(entries, dimensions))
  /\ FiniteView(targetState)

\* ------------------------------------------------------------ C33

\* C33: whatever the interleaving of target changes, wheel events,
\* pointer-downs and frames, at most one animation frame callback is pending.
C33_OneFramePending == rafPending <= 1

\* ------------------------------------------------------------ C34

HitDrawnStep ==
  /\ HoverHitRecord => hoveredEvent' \in frame.visibleSet
  /\ ClickHitRecord => selectedEntry' \in frame.visibleSet

\* C34: a hover or a click returns only records drawn in the last painted
\* frame, never a record the culling pass hid that is not the selected record.
C34_HitOnlyDrawn == [][HitDrawnStep]_vars

\* ------------------------------------------------------------ C35

\* The drawn row a badge belongs to, and the hidden records its run holds.
rowOfBadge(b) ==
  SelectSeq(frame.positioned,
            LAMBDA p : p.group = b.afterPos.group /\ p.row = b.afterPos.row)

placeIn(row, pos) == CHOOSE i \in 1..Len(row) : row[i] = pos

runOf(b) ==
  SubSeq(rowOfBadge(b), placeIn(rowOfBadge(b), b.afterPos) + 1,
         IF closedRun(b) THEN placeIn(rowOfBadge(b), b.beforePos) - 1
         ELSE Len(rowOfBadge(b)))

\* The record's rectangle lies inside the plot area of the canvas.
InViewport(pos) ==
  /\ Ge(pos.x, I(GROUP_LABEL_WIDTH))
  /\ Le(Add(pos.x, pos.width), I(dimensions.width))
  /\ Ge(Add(I(pos.y), viewState.offsetY), I(AXIS_HEIGHT))
  /\ Le(Add(I(pos.y + pos.height), viewState.offsetY), I(dimensions.height))

RunInViewport(b) == \A k \in 1..Len(runOf(b)) : InViewport(runOf(b)[k])

\* A rectangle of badgeHitRectsRef that was registered for the badge.
HasBadgeRect(b) ==
  \E k \in 1..Len(frame.badgeHitRects) :
    /\ frame.badgeHitRects[k].y = Add(Add(I(b.afterPos.y), viewState.offsetY), I(4))
    /\ frame.badgeHitRects[k].minYear = b.yearMin
    /\ frame.badgeHitRects[k].maxYear = b.yearMax
    /\ Ge(frame.badgeHitRects[k].x, Add(b.afterPos.x, b.afterPos.width))

\* C35: every hidden run whose records lie inside the viewport has a badge
\* rectangle registered for hit-testing in that frame.
C35_OnScreenRunHasBadge ==
  \A i \in 1..Len(frame.hiddenBadges) :
    RunInViewport(frame.hiddenBadges[i]) => HasBadgeRect(frame.hiddenBadges[i])

\* ------------------------------------------------------------ service worker

\* url.includes("upload.wikimedia.org")
includes(url, part) == \E k \in 1..Len(url) : url[k] = part

\* A worker that stores whatever the network answered.
shouldPut_always(response) == TRUE

\* if (response.ok) cache.put(event.request, response.clone())
shouldPut(response) == response.ok

request(i) == sw.requests[i]

setRequest(i, r) == sw' = [sw EXCEPT !.requests[i] = r]

\* The fetch listener up to its first return: a URL without the needle is left
\* to the browser, any other gets event.respondWith(...).
FetchEvent(i, url) ==
  /\ request(i).pc = "idle"
  /\ setRequest(i, [request(i) EXCEPT !.url = url,
                      !.pc = IF includes(url, "upload.wikimedia.org") THEN "match"
                             ELSE "passthrough"])
  /\ UNCHANGED canvasVars

\* caches.open(CACHE_NAME).then(cache => cache.match(event.request).then(cached => cached || ...))
CacheMatch(i) ==
  /\ request(i).pc = "match"
  /\ setRequest(i, IF sw.cache[request(i).url] # NoResponse
                   THEN [request(i) EXCEPT !.pc = "done", !.cached = sw.cache[request(i).url],
                                           !.answer = sw.cache[request(i).url],
                                           !.source = "cache"]
                   ELSE [request(i) EXCEPT !.pc = "fetch"])
  /\ UNCHANGED canvasVars

\* fetch(event.request).then(response => { ...; return response }): the page
\* gets the network's answer; cache.put is started and not awaited.
NetworkFetch(i, response) ==
  /\ request(i).pc = "fetch"
  /\ setRequest(i, [request(i) EXCEPT
                      !.fetched = TRUE, !.network = response, !.answer = response,
                      !.source = "network",
                      !.pc = IF response # NoResponse /\ shouldPut(response) THEN "put"
                             ELSE "done"])
  /\ UNCHANGED canvasVars

\* cache.put(event.request, response.clone()) completes.
CachePut(i) ==
  /\ request(i).pc = "put"
  /\ sw' = [sw EXCEPT !.cache[request(i).url] = request(i).network,
                      !.requests[i].pc = "done", !.requests[i].put = TRUE]
  /\ UNCHANGED canvasVars

InitSW == InitWith(<<>>)

NextSW ==
  \/ \E i \in 1..MaxRequests, url \in Urls : FetchEvent(i, url)
  \/ \E i \in 1..MaxRequests : CacheMatch(i)
  \/ \E i \in 1..MaxRequests : \E response \in NetworkAnswers(request(i).url) :
       NetworkFetch(i, response)
  \/ \E i \in 1..MaxRequests : CachePut(i)

SpecSW == InitSW /\ [][NextSW]_vars

\* ------------------------------------------------------------ C36

Intercepted(r) == r.pc \in {"match", "fetch", "put", "done"}

Answered(r) == r.pc \in {"put", "done"}

LeftToBrowser(r) ==
  r.pc = "passthrough" /\ ~r.fetched /\ r.answer = NoResponse /\ ~r.put

FromCache(r) == r.source = "cache" /\ r.answer = r.cached /\ ~r.fetched /\ ~r.put

FromNetwork(r) ==
  /\ r.source = "network" /\ r.fetched /\ r.answer = r.network
  /\ (r.pc = "put" \/ r.put) <=> r.network.ok

CacheFirst(r) ==
  /\ (r.pc # "idle" /\ ~includes(r.url, "upload.wikimedia.org")) => LeftToBrowser(r)
  /\ Intercepted(r) => includes(r.url, "upload.wikimedia.org")
  /\ Answered(r) => IF r.cached # NoResponse THEN FromCache(r) ELSE FromNetwork(r)

\* C36: a request whose URL does not contain upload.wikimedia.org is never
\* intercepted; an intercepted request that finds a cached response is
\* answered with it and causes no network fetch; otherwise the network's
\* answer is returned and stored only if it is ok, so the cache never holds,
\* and never serves, a failed response.
C36_CacheFirstForWikimedia ==
  /\ \A i \in 1..MaxRequests : CacheFirst(sw.requests[i])
  /\ \A u \in Urls : sw.cache[u] # NoResponse => sw.cache[u].ok
  /\ \A i \in 1..MaxRequests :
       sw.requests[i].source = "cache" => sw.requests[i].answer.ok

\* A request answered from the cache that an earlier request filled, and a
\* request whose 404 was returned and not stored.
C36_ServedFromCache ==
  /\ \E i \in 1..MaxRequests :
       sw.requests[i].source = "cache" /\ sw.requests[i].url = ImageUrl
  /\ \E i \in 1..MaxRequests :
       /\ sw.requests[i].pc = "done" /\ sw.requests[i].network.status = 404
       /\ sw.cache[sw.requests[i].url] = NoResponse

\* ------------------------------------------------------------ C37

\* The pixel span of a record's date range at a camera: years times pixels per year.
pixelSpan(entry, view) ==
  Mul(I(getYear(entry, TRUE) - getYear(entry, FALSE)), Mul(view.scale, I(10)))

labelWidth(entry) == I(measureEventWidth(entry))

widthAt(entry, view) ==
  IF hasEnd(entry) THEN MathMax(pixelSpan(entry, view), labelWidth(entry))
  ELSE labelWidth(entry)

groupOffset(le) ==
  IF \E k \in 1..Len(layout.groups) : layout.groups[k].key = le.group
  THEN (CHOOSE g \in { layout.groups[k] : k \in 1..Len(layout.groups) } : g.key = le.group).y
  ELSE AXIS_HEIGHT

paintedY(le) == Add(I(groupOffset(le) + le.row * ROW_HEIGHT), viewState.offsetY)

\* The pointer at the middle of the specified rectangle, and one a pixel
\* above its top edge.
insideAt(le, pos) ==
  [x |-> Add(pos.x, Div(widthAt(le.entry, viewState), I(2))),
   y |-> Add(paintedY(le), I(1))]

aboveAt(le, pos) ==
  [x |-> Add(pos.x, Div(widthAt(le.entry, viewState), I(2))),
   y |-> Sub(paintedY(le), I(1))]

isHitAt(pos, pt) ==
  SelectSeq(recordsAt(frame, viewState, pt), LAMBDA hit : hit = pos) # <<>>

ProjectedAsSpecified(i) ==
  LET le == layout.layoutEntries[i]
      pos == frame.positioned[i]
  IN /\ pos.entry = le.entry
     /\ pos.width = widthAt(le.entry, viewState)
     /\ ~Lt(pos.width, labelWidth(le.entry))
     /\ pos.y = groupOffset(le) + le.row * ROW_HEIGHT
     /\ IsFinite(viewState.scale) /\ IsFinite(viewState.offsetY)
          => isHitAt(pos, insideAt(le, pos)) /\ ~isHitAt(pos, aboveAt(le, pos))

\* C37: the rectangles of the frame are those computeLayout() derives from the
\* current layout and the rendered camera; each is as wide as the larger of
\* the pixel span of its date range and its label for a period, as wide as
\* its label for a point record, never narrower than its label, and sits at
\* the group's vertical offset + row * ROW_HEIGHT, shifted by camera.offsetY
\* where it is painted and hit.
C37_ProjectedRectangle ==
  /\ frame.positioned = positionedOf(layout, viewState, minYearOf(entries))
  /\ Len(frame.positioned) = Len(layout.layoutEntries)
  /\ \A i \in 1..Len(layout.layoutEntries) : ProjectedAsSpecified(i)

\* A period drawn wider than its label next to a point record.
C37_PeriodWiderThanLabel ==
  /\ \E i \in 1..Len(frame.positioned) :
       /\ hasEnd(frame.positioned[i].entry)
       /\ Gt(frame.positioned[i].width, labelWidth(frame.positioned[i].entry))
  /\ \E i \in 1..Len(frame.positioned) : ~hasEnd(frame.positioned[i].entry)
====
